---- MODULE Spec2Model ----
(***************************************************************************)
(* A model of the nsqlitego database/sql driver: the connection and its    *)
(* transaction id (Conn), prepared statements (Stmt) and the wire client   *)
(* (nsqlitehttp.Client) they call.  The remote server and the HTTP         *)
(* transport are the environment: every wire call draws its outcome from   *)
(* HttpOutcomes / PingOutcomes.                                            *)
(***************************************************************************)
EXTENDS Integers, Sequences, FiniteSets, TLC

\* ------------------------------------------------------------------ bounds

\* Prepared statements kept per connection.
MaxStmts == 1

\* Queries in one batch handed to SendQueries.
MaxBatch == 3

\* Calls of Next on one QueryRows.
MaxCalls == 5

\* Arguments of one execution of a statement.
MaxArgs == 3

\* ------------------------------------------------------------- environment

\* Connection identities handed out by the connector.
AllConns == {"c1", "c2"}

\* Connections the single-caller specification operates.
Conns == {"c1"}

\* Transaction ids the server may issue in a begin response.
TxIds == {"tx1", "tx2"}

\* Query texts of prepared statements.
Queries == {"SELECT", "INSERT"}

\* Error messages carried by error responses.
ErrorMsgs == {"boom"}

\* HTTP status codes the client tells apart.
StatusOK == 200
StatusUnauthorized == 401
OtherStatuses == {404, 500}

\* ----------------------------------------------------------- wire records

\* QueryResponseType constants.
QueryResponseTypeError == "error"
QueryResponseTypeBegin == "begin"
QueryResponseTypeCommit == "commit"
QueryResponseTypeRollback == "rollback"
QueryResponseTypeWrite == "write"
QueryResponseTypeRead == "read"

\* The zero value of the QueryResponse struct.
QueryResponse ==
  [type |-> "", error |-> "", txId |-> "", lastInsertId |-> 0,
   rowsAffected |-> 0, columns |-> <<>>, types |-> <<>>, rows |-> <<>>]

\* The responses the server may put in an envelope: one or more of each kind,
\* each carrying only the fields of its kind.  A begin response carries the
\* id the server issued for the transaction, which is never empty.
Responses ==
  {[QueryResponse EXCEPT !.type = QueryResponseTypeError, !.error = m] :
     m \in ErrorMsgs}
  \cup {[QueryResponse EXCEPT !.type = QueryResponseTypeBegin, !.txId = t] :
          t \in TxIds}
  \cup {[QueryResponse EXCEPT !.type = QueryResponseTypeCommit],
        [QueryResponse EXCEPT !.type = QueryResponseTypeRollback]}
  \cup {[QueryResponse EXCEPT !.type = QueryResponseTypeWrite,
                              !.lastInsertId = i, !.rowsAffected = 1] :
          i \in {0, 7}}
  \cup {[QueryResponse EXCEPT !.type = QueryResponseTypeRead,
                              !.columns = <<"id", "name">>,
                              !.types = <<"integer", "text">>,
                              !.rows = << <<"1", "a">>, <<"2", "b">> >>],
        [QueryResponse EXCEPT !.type = QueryResponseTypeRead,
                              !.columns = <<"id">>,
                              !.types = <<"integer">>]}

\* A Query as put on the wire.
Query(text, params, tx) == [query |-> text, params |-> params, txId |-> tx]

\* What the transport and the server do to one POST /query of a single query:
\* the transport fails, or a status comes back with a body that decodes (or
\* not) to an envelope of results.
HttpOutcomes ==
  {[net |-> "fail", status |-> 0, decodes |-> FALSE, results |-> <<>>, ctx |-> "live"]}
  \cup {[net |-> "ok", status |-> s, decodes |-> FALSE, results |-> <<>>, ctx |-> "live"] :
          s \in {StatusUnauthorized, StatusOK} \cup OtherStatuses}
  \cup {[net |-> "ok", status |-> StatusOK, decodes |-> TRUE, results |-> <<>>, ctx |-> "live"]}
  \cup {[net |-> "ok", status |-> StatusOK, decodes |-> TRUE, results |-> <<r>>, ctx |-> "live"] :
          r \in Responses}

\* ------------------------------------------------------------------ errors

\* The nil error.
NoErr == [kind |-> "nil", msg |-> "", prefix |-> "", badConn |-> FALSE]

\* fmt.Errorf(text).
Errorf(kind, msg) == [kind |-> kind, msg |-> msg, prefix |-> "", badConn |-> FALSE]

\* fmt.Errorf(prefix + ": %w", err): the cause stays in the chain.
Wrapf(prefix, err) == [err EXCEPT !.prefix = prefix]

\* errors.Join(driver.ErrBadConn, errors.New(text), err): matches ErrBadConn
\* and keeps err in the chain.
JoinBadConn(text, err) == [err EXCEPT !.prefix = text, !.badConn = TRUE]

\* ------------------------------------------------------------ texts, URLs

\* A text is the sequence of its lexical pieces: the punctuation marks of a
\* URL, one piece each, and the runs of other characters between them (words).
\* No two words are adjacent in a text.
Punct == {":", "/", "?", "=", "&"}

\* ConnStr{}: the four fields of a connection string, each a text, all empty.
ConnStr == [Protocol |-> <<>>, Host |-> <<>>, Port |-> <<>>, AuthToken |-> <<>>]

\* Words of digits only, and words holding a percent escape.
DigitWords == {"8080", "9876"}
EscapedWords == {"a%2Fb"}

\* Words of the characters a scheme is made of, a letter first.
IsSchemeShaped(t) == t \notin Punct \cup DigitWords \cup EscapedWords \cup {"****"}

\* strings.ToLower of a word.
ToLowerWord(w) ==
  CASE w = "HTTP" -> "http"
    [] w = "authToken" -> "authtoken"
    [] OTHER -> w

\* strings.Index and strings.LastIndex of a punctuation mark, 0 when absent.
Index(s, t) ==
  IF \E i \in 1..Len(s) : s[i] = t
    THEN CHOOSE i \in 1..Len(s) : s[i] = t /\ \A j \in 1..(i - 1) : s[j] # t
    ELSE 0

LastIndex(s, t) ==
  IF \E i \in 1..Len(s) : s[i] = t
    THEN CHOOSE i \in 1..Len(s) : s[i] = t /\ \A j \in (i + 1)..Len(s) : s[j] # t
    ELSE 0

\* The two parts strings.Cut(s, t) returns.
Before(s, t) == IF Index(s, t) = 0 THEN s ELSE SubSeq(s, 1, Index(s, t) - 1)
After(s, t) == IF Index(s, t) = 0 THEN <<>> ELSE SubSeq(s, Index(s, t) + 1, Len(s))

\* strings.HasPrefix and strings.HasSuffix.
HasPrefix(s, p) == Len(s) >= Len(p) /\ SubSeq(s, 1, Len(p)) = p
HasSuffix(s, p) == Len(s) >= Len(p) /\ SubSeq(s, Len(s) - Len(p) + 1, Len(s)) = p

\* url.QueryUnescape: every percent escape replaced by what it stands for.
RECURSIVE QueryUnescape(_)
QueryUnescape(s) ==
  IF s = <<>> THEN <<>>
  ELSE (IF s[1] = "a%2Fb" THEN <<"a", "/", "b">> ELSE <<s[1]>>)
         \o QueryUnescape(Tail(s))

\* A *url.URL, and what url.Parse returns with an error.
URL(scheme, opaque, host, path, rawQuery) ==
  [err |-> FALSE, Host |-> host, Scheme |-> scheme, Opaque |-> opaque,
   Path |-> path, RawQuery |-> rawQuery]
ParseError ==
  [err |-> TRUE, Host |-> <<>>, Scheme |-> <<>>, Opaque |-> <<>>, Path |-> <<>>,
   RawQuery |-> <<>>]

\* net/url getScheme: the word before a first colon when it is made of scheme
\* characters; an error for a text that starts with the colon.
getScheme(rawURL) ==
  IF rawURL # <<>> /\ rawURL[1] = ":"
    THEN [scheme |-> <<>>, rest |-> <<>>, err |-> TRUE]
  ELSE IF Len(rawURL) >= 2 /\ IsSchemeShaped(rawURL[1]) /\ rawURL[2] = ":"
    THEN [scheme |-> <<rawURL[1]>>, rest |-> SubSeq(rawURL, 3, Len(rawURL)),
          err |-> FALSE]
  ELSE [scheme |-> <<>>, rest |-> rawURL, err |-> FALSE]

\* net/url validOptionalPort: nothing, or a colon followed by digits only.
validOptionalPort(port) ==
  \/ port = <<>>
  \/ port = <<":">>
  \/ Len(port) = 2 /\ port[1] = ":" /\ port[2] \in DigitWords

\* net/url parseHost: what follows the last colon is a port, and the host
\* holds no percent escape other than of a zone.
validHost(host) ==
  /\ LastIndex(host, ":") # 0
       => validOptionalPort(SubSeq(host, LastIndex(host, ":"), Len(host)))
  /\ \A i \in 1..Len(host) : host[i] \notin EscapedWords

\* url.Parse of a text without fragment and without user information.
Parse(rawURL) ==
  LET s == getScheme(rawURL)
      scheme == [i \in 1..Len(s.scheme) |-> ToLowerWord(s.scheme[i])]
      rest == Before(s.rest, "?")
      rawQuery == After(s.rest, "?")
      authority == Before(SubSeq(rest, 3, Len(rest)), "/")
  IN  IF s.err THEN ParseError
      ELSE IF ~HasPrefix(rest, <<"/">>)
        THEN IF scheme # <<>>
               THEN URL(scheme, rest, <<>>, <<>>, rawQuery)
             ELSE IF Index(Before(rest, "/"), ":") # 0
               THEN ParseError
             ELSE URL(scheme, <<>>, <<>>, rest, rawQuery)
      ELSE IF /\ HasPrefix(rest, <<"/", "/">>)
              /\ (scheme # <<>> \/ ~HasPrefix(rest, <<"/", "/", "/">>))
        THEN IF ~validHost(authority)
               THEN ParseError
               ELSE URL(scheme, <<>>, authority,
                        SubSeq(rest, 3 + Len(authority), Len(rest)), rawQuery)
      ELSE URL(scheme, <<>>, <<>>, rest, rawQuery)

\* URL.Hostname and URL.Port: the host without a valid port, and that port.
Hostname(u) ==
  IF /\ LastIndex(u.Host, ":") # 0
     /\ validOptionalPort(SubSeq(u.Host, LastIndex(u.Host, ":"), Len(u.Host)))
    THEN SubSeq(u.Host, 1, LastIndex(u.Host, ":") - 1)
    ELSE u.Host

Port(u) ==
  IF /\ LastIndex(u.Host, ":") # 0
     /\ validOptionalPort(SubSeq(u.Host, LastIndex(u.Host, ":"), Len(u.Host)))
    THEN SubSeq(u.Host, LastIndex(u.Host, ":") + 1, Len(u.Host))
    ELSE <<>>

\* URL.Query().Get(key): the unescaped value of the first key=value pair of
\* the query with that key; nothing when there is none.
RECURSIVE QueryGet(_, _)
QueryGet(query, key) ==
  IF query = <<>> THEN <<>>
  ELSE IF QueryUnescape(Before(Before(query, "&"), "=")) = key
    THEN QueryUnescape(After(Before(query, "&"), "="))
  ELSE QueryGet(After(query, "&"), key)

\* ------------------------------------------------------- connection string

\* setDefaultsIfEmpty putting the default port whatever the port was.
setDefaultsPortAlways(c) ==
  [Protocol |-> IF c.Protocol = <<>> THEN <<"http">> ELSE c.Protocol,
   Host |-> IF c.Host = <<>> THEN <<"localhost">> ELSE c.Host,
   Port |-> <<"9876">>,
   AuthToken |-> c.AuthToken]

\* ConnStr.setDefaultsIfEmpty: the descriptor after the call.
setDefaultsIfEmpty(c) ==
  [Protocol |-> IF c.Protocol = <<>> THEN <<"http">> ELSE c.Protocol,
   Host |-> IF c.Host = <<>> THEN <<"localhost">> ELSE c.Host,
   Port |-> IF c.Port = <<>> THEN <<"9876">> ELSE c.Port,
   AuthToken |-> c.AuthToken]

\* NewConnStrFromText without the test of the protocol.
NewConnStrFromTextAnyScheme(connStrText) ==
  LET parsedURL == Parse(connStrText)
  IN  IF parsedURL.err
        THEN [connStr |-> ConnStr, err |-> Errorf("parse", "")]
      ELSE IF Hostname(parsedURL) = <<>>
        THEN [connStr |-> ConnStr, err |-> Errorf("host", "host is required")]
      ELSE [connStr |-> [Protocol |-> parsedURL.Scheme,
                         Host |-> Hostname(parsedURL),
                         Port |-> IF Port(parsedURL) = <<>> THEN <<"9876">>
                                       ELSE Port(parsedURL),
                         AuthToken |-> QueryGet(parsedURL.RawQuery, <<"authToken">>)],
            err |-> NoErr]

\* NewConnStrFromText without the test of the host.
NewConnStrFromTextAnyHost(connStrText) ==
  LET parsedURL == Parse(connStrText)
  IN  IF parsedURL.err
        THEN [connStr |-> ConnStr, err |-> Errorf("parse", "")]
      ELSE IF parsedURL.Scheme # <<"http">> /\ parsedURL.Scheme # <<"https">>
        THEN [connStr |-> ConnStr,
              err |-> Errorf("protocol", "invalid protocol, must be http or https")]
      ELSE [connStr |-> [Protocol |-> parsedURL.Scheme,
                         Host |-> Hostname(parsedURL),
                         Port |-> IF Port(parsedURL) = <<>> THEN <<"9876">>
                                       ELSE Port(parsedURL),
                         AuthToken |-> QueryGet(parsedURL.RawQuery, <<"authToken">>)],
            err |-> NoErr]

\* NewConnStrFromText taking what follows the first = of the query for the token.
NewConnStrFromTextRawToken(connStrText) ==
  LET parsedURL == Parse(connStrText)
  IN  IF parsedURL.err
        THEN [connStr |-> ConnStr, err |-> Errorf("parse", "")]
      ELSE IF parsedURL.Scheme # <<"http">> /\ parsedURL.Scheme # <<"https">>
        THEN [connStr |-> ConnStr,
              err |-> Errorf("protocol", "invalid protocol, must be http or https")]
      ELSE IF Hostname(parsedURL) = <<>>
        THEN [connStr |-> ConnStr, err |-> Errorf("host", "host is required")]
      ELSE [connStr |-> [Protocol |-> parsedURL.Scheme,
                         Host |-> Hostname(parsedURL),
                         Port |-> IF Port(parsedURL) = <<>> THEN <<"9876">>
                                       ELSE Port(parsedURL),
                         AuthToken |-> After(parsedURL.RawQuery, "=")],
            err |-> NoErr]

\* NewConnStrFromText returning the protocol it read along with the host error.
NewConnStrFromTextHalfFilled(connStrText) ==
  LET parsedURL == Parse(connStrText)
  IN  IF parsedURL.err
        THEN [connStr |-> ConnStr, err |-> Errorf("parse", "")]
      ELSE IF parsedURL.Scheme # <<"http">> /\ parsedURL.Scheme # <<"https">>
        THEN [connStr |-> ConnStr,
              err |-> Errorf("protocol", "invalid protocol, must be http or https")]
      ELSE IF Hostname(parsedURL) = <<>>
        THEN [connStr |-> [ConnStr EXCEPT !.Protocol = parsedURL.Scheme], err |-> Errorf("host", "host is required")]
      ELSE [connStr |-> [Protocol |-> parsedURL.Scheme,
                         Host |-> Hostname(parsedURL),
                         Port |-> IF Port(parsedURL) = <<>> THEN <<"9876">>
                                       ELSE Port(parsedURL),
                         AuthToken |-> QueryGet(parsedURL.RawQuery, <<"authToken">>)],
            err |-> NoErr]

\* NewConnStrFromText: the descriptor and the error it returns.
NewConnStrFromText(connStrText) ==
  LET parsedURL == Parse(connStrText)
  IN  IF parsedURL.err
        THEN [connStr |-> ConnStr, err |-> Errorf("parse", "")]
      ELSE IF parsedURL.Scheme # <<"http">> /\ parsedURL.Scheme # <<"https">>
        THEN [connStr |-> ConnStr,
              err |-> Errorf("protocol", "invalid protocol, must be http or https")]
      ELSE IF Hostname(parsedURL) = <<>>
        THEN [connStr |-> ConnStr, err |-> Errorf("host", "host is required")]
      ELSE [connStr |-> [Protocol |-> parsedURL.Scheme,
                         Host |-> Hostname(parsedURL),
                         Port |-> IF Port(parsedURL) = <<>> THEN <<"9876">>
                                       ELSE Port(parsedURL),
                         AuthToken |-> QueryGet(parsedURL.RawQuery, <<"authToken">>)],
            err |-> NoErr]

\* What a ConnStr method leaves and returns: the descriptor after the call,
\* the text or the URL returned, the error.
Result(c, out, url, err) == [connStr |-> c, out |-> out, url |-> url, err |-> err]

\* String showing the token.
StringTokenShown(c) ==
  LET d == setDefaultsIfEmpty(c)
  IN  IF d.AuthToken = <<>>
        THEN Result(d, d.Protocol \o <<":", "/", "/">> \o d.Host \o <<":">> \o d.Port,
                    ParseError, NoErr)
        ELSE Result(d, d.Protocol \o <<":", "/", "/">> \o d.Host \o <<":">> \o d.Port
                         \o <<"?", "authToken", "=">> \o d.AuthToken,
                    ParseError, NoErr)

\* ConnStr.String.
String(c) ==
  LET d == setDefaultsIfEmpty(c)
  IN  IF d.AuthToken = <<>>
        THEN Result(d, d.Protocol \o <<":", "/", "/">> \o d.Host \o <<":">> \o d.Port,
                    ParseError, NoErr)
        ELSE Result(d, d.Protocol \o <<":", "/", "/">> \o d.Host \o <<":">> \o d.Port
                         \o <<"?", "authToken", "=", "****">>,
                    ParseError, NoErr)

\* ConnStr.BaseUrlStr.
BaseUrlStr(c) ==
  LET d == setDefaultsIfEmpty(c)
  IN  Result(d, d.Protocol \o <<":", "/", "/">> \o d.Host \o <<":">> \o d.Port,
             ParseError, NoErr)

\* strings.Split(s, t).
RECURSIVE Split(_, _)
Split(s, t) ==
  IF Index(s, t) = 0 THEN <<s>> ELSE <<Before(s, t)>> \o Split(After(s, t), t)

\* path.Join of a rooted path: runs of slashes become one slash, the slashes
\* at either end go.
RECURSIVE Kept(_, _)
Kept(p, i) ==
  IF i > Len(p) THEN <<>>
  ELSE (IF \/ p[i] # "/"
           \/ (i > 1 /\ p[i - 1] # "/" /\ \E j \in (i + 1)..Len(p) : p[j] # "/")
          THEN <<p[i]>> ELSE <<>>)
         \o Kept(p, i + 1)

\* URL.String.
URLString(u) ==
  (IF u.Scheme # <<>> THEN u.Scheme \o <<":">> ELSE <<>>)
  \o (IF u.Opaque # <<>>
        THEN u.Opaque
        ELSE (IF u.Host # <<>> THEN <<"/", "/">> \o u.Host ELSE <<>>)
             \o (IF u.Path # <<>> /\ u.Path[1] # "/" /\ u.Host # <<>>
                   THEN <<"/">> ELSE <<>>)
             \o u.Path)
  \o (IF u.RawQuery # <<>> THEN <<"?">> \o u.RawQuery ELSE <<>>)

\* url.JoinPath(base, elem): base parsed, its path joined with elem and
\* cleaned, a slash at the end of elem kept, and the URL written out again.
JoinPath(base, elem) ==
  LET u == Parse(base)
      p == Kept(u.Path \o <<"/">> \o elem, 1)
           \o (IF HasSuffix(elem, <<"/">>) THEN <<"/">> ELSE <<>>)
  IN  IF u.err THEN [out |-> <<>>, err |-> TRUE]
      ELSE [out |-> URLString([u EXCEPT !.Path = p]), err |-> FALSE]

\* CreateUrlStr putting base, a slash and the path one after the other.
CreateUrlStrPlainConcat(c, path) ==
  LET d == setDefaultsIfEmpty(c)
  IN  Result(d, BaseUrlStr(d).out \o <<"/">> \o path, ParseError, NoErr)

\* ConnStr.CreateUrlStr.
CreateUrlStr(c, path) ==
  LET d == setDefaultsIfEmpty(c)
      parts == Split(path, "?")
      pathOnly == IF Len(parts) > 1 THEN parts[1] ELSE path
      query == IF Len(parts) > 1 THEN parts[2] ELSE <<>>
      joined == JoinPath(BaseUrlStr(d).out, pathOnly)
  IN  IF joined.err
        THEN Result(d, <<>>, ParseError,
                    Wrapf("failed to join URL path", Errorf("parse", "")))
      ELSE IF query # <<>>
        THEN Result(d, joined.out \o <<"?">> \o query, ParseError, NoErr)
      ELSE Result(d, joined.out, ParseError, NoErr)

\* ConnStr.CreateUrl.
CreateUrl(c, path) ==
  LET d == setDefaultsIfEmpty(c)
      joined == CreateUrlStr(d, path)
      parsed == Parse(joined.out)
  IN  IF joined.err # NoErr
        THEN Result(d, <<>>, ParseError, joined.err)
      ELSE IF parsed.err
        THEN Result(d, <<>>, ParseError,
                    Wrapf("failed to parse URL", Errorf("parse", "")))
      ELSE Result(d, <<>>, parsed, NoErr)

\* ------------------------------------------------------------------- state

VARIABLES
  open,       \* open[c]: connection c was handed out by Connect and not yet closed
  txId,       \* txId[c]: Conn.txId, "" when no transaction is active
  stmts,      \* stmts[c]: the statements prepared on c
  last,       \* the latest call: what it was given, sent, received and returned
  client,     \* the nsqlitehttp.Client all connections share
  serverOpen, \* the transactions open on the remote server
  dsn,        \* a nsqlitedsn.ConnStr a caller holds
  rows,       \* a QueryRows a caller iterates, and the caller's destination
  drv,        \* the package-level singleton of driver.go and its callers
  hist        \* the COMMIT and ROLLBACK requests each connection has sent

\* ------------------------------------------------------------- wire client

\* Auth tokens a connection string may carry; "" is no token.
AuthTokens == {"", "secret"}

\* fmt.Errorf(prefix + ": %v", err): a new error that has the text of err
\* after the prefix, and nothing of err in its chain.
ErrorText(err) ==
  IF err.kind = "text" THEN err.text
  ELSE IF err.prefix = "" THEN <<err.msg>>
  ELSE <<err.prefix, err.msg>>

Errorv(prefix, err) ==
  [kind |-> "text", msg |-> err.msg, prefix |-> prefix, badConn |-> FALSE,
   text |-> <<prefix>> \o ErrorText(err)]

\* A *Client: nil, or a client around a descriptor.
NilClient == [connStr |-> ConnStr, nil |-> TRUE]

\* nsqlitehttp.NewClient without options.
NewClient(connectionString) ==
  LET r == NewConnStrFromText(connectionString)
  IN  IF r.err # NoErr
        THEN [err |-> Errorv("invalid connection string", r.err),
              client |-> NilClient]
        ELSE [err |-> NoErr, client |-> [connStr |-> r.connStr, nil |-> FALSE]]

\* The Client that NewClient builds around the parsed connection string.
ClientWithToken(token) ==
  [connStr |-> [Protocol |-> "http", Host |-> "localhost", Port |-> "9876",
                AuthToken |-> token]]

\* Client.newRequest with the Authorization header set whatever the token.
newRequestAlwaysAuth(method, path, body) ==
  [method |-> method, path |-> path, body |-> body,
   header |-> {<<"Content-Type", "application/json">>,
               <<"Authorization", client.connStr.AuthToken>>}]

\* Client.newRequest: the request for a path of the server, with the JSON
\* content type and, when the connection string has a token, the token as
\* Authorization header.
newRequest(method, path, body) ==
  [method |-> method, path |-> path, body |-> body,
   header |-> {<<"Content-Type", "application/json">>}
              \cup (IF client.connStr.AuthToken # ""
                      THEN {<<"Authorization", client.connStr.AuthToken>>}
                      ELSE {})]

\* The error httpc.Do returns when no response arrives: the context's error
\* when the request's context ended first, the transport's otherwise.
DoError(h) == Errorf(IF h.ctx = "doneInDo" THEN "cancelled" ELSE "transport", "")

\* The error Decode returns: the error of the body read the context's end cut
\* short, or the decoder's own for a body that is no envelope.
DecodeError(h) == Errorf(IF h.ctx = "doneInBody" THEN "cancelled" ELSE "decode", "")

\* SendQueries naming the failed decode without keeping its cause.
SendQueriesCauseDropped(queries, h) ==
  IF h.net = "fail"
    THEN [err |-> Wrapf("failed to send request", DoError(h)),
          responses |-> <<>>]
  ELSE IF h.status = StatusUnauthorized
    THEN [err |-> Errorf("auth", "authentication failed, please check your credentials"),
          responses |-> <<>>]
  ELSE IF h.status # StatusOK
    THEN [err |-> Errorf("status", "unwanted response status"), responses |-> <<>>]
  ELSE IF ~h.decodes
    THEN [err |-> Errorf("decode", "failed to decode response"), responses |-> <<>>]
  ELSE IF Len(h.results) = 0
    THEN [err |-> Errorf("empty", "empty response"), responses |-> <<>>]
  ELSE [err |-> NoErr, responses |-> h.results]

\* SendQueries handing the results back last first.
SendQueriesReversed(queries, h) ==
  IF h.net = "fail"
    THEN [err |-> Wrapf("failed to send request", Errorf("transport", "")),
          responses |-> <<>>]
  ELSE IF h.status = StatusUnauthorized
    THEN [err |-> Errorf("auth", "authentication failed, please check your credentials"),
          responses |-> <<>>]
  ELSE IF h.status # StatusOK
    THEN [err |-> Errorf("status", "unwanted response status"), responses |-> <<>>]
  ELSE IF ~h.decodes
    THEN [err |-> Wrapf("failed to decode response", Errorf("decode", "")),
          responses |-> <<>>]
  ELSE IF Len(h.results) = 0
    THEN [err |-> Errorf("empty", "empty response"), responses |-> <<>>]
  ELSE [err |-> NoErr,
        responses |-> [i \in 1..Len(h.results) |-> h.results[Len(h.results) + 1 - i]]]

\* SendQueries decoding the body whatever the status that is not 401.
SendQueriesStatusUnchecked(queries, h) ==
  IF h.net = "fail"
    THEN [err |-> Wrapf("failed to send request", Errorf("transport", "")),
          responses |-> <<>>]
  ELSE IF h.status = StatusUnauthorized
    THEN [err |-> Errorf("auth", "authentication failed, please check your credentials"),
          responses |-> <<>>]
  ELSE IF ~h.decodes
    THEN [err |-> Wrapf("failed to decode response", Errorf("decode", "")),
          responses |-> <<>>]
  ELSE IF Len(h.results) = 0
    THEN [err |-> Errorf("empty", "empty response"), responses |-> <<>>]
  ELSE [err |-> NoErr, responses |-> h.results]

\* Client.SendQueries: one POST /query for the whole batch; h is what the
\* transport and the server make of it.
SendQueries(queries, h) ==
  IF h.net = "fail"
    THEN [err |-> Wrapf("failed to send request", DoError(h)),
          responses |-> <<>>]
  ELSE IF h.status = StatusUnauthorized
    THEN [err |-> Errorf("auth", "authentication failed, please check your credentials"),
          responses |-> <<>>]
  ELSE IF h.status # StatusOK
    THEN [err |-> Errorf("status", "unwanted response status"), responses |-> <<>>]
  ELSE IF ~h.decodes
    THEN [err |-> Wrapf("failed to decode response", DecodeError(h)),
          responses |-> <<>>]
  ELSE IF Len(h.results) = 0
    THEN [err |-> Errorf("empty", "empty response"), responses |-> <<>>]
  ELSE [err |-> NoErr, responses |-> h.results]

\* Client.SendQuery: a batch of one, and its first response.
SendQuery(query, h) ==
  LET r == SendQueries(<<query>>, h)
  IN  IF r.err # NoErr
        THEN [err |-> r.err, resp |-> QueryResponse]
        ELSE [err |-> NoErr, resp |-> r.responses[1]]

\* The HTTP request SendQueries builds: POST /query with the batch as body.
PostQuery(queries) == newRequest("POST", "/query", queries)

\* The HTTP request SendPing builds: GET /health.
GetHealth == newRequest("GET", "/health", <<>>)

\* What the transport and the server do to one GET /version: the body is the
\* version text.
VersionOutcomes ==
  {[net |-> "fail", status |-> 0, body |-> ""]}
  \cup {[net |-> "ok", status |-> s, body |-> b] :
          s \in {StatusOK, StatusUnauthorized} \cup OtherStatuses,
          b \in {"", "1.2.0"}}

\* Client.GetVersion.
GetVersion(h) ==
  IF h.net = "fail"
    THEN [err |-> Wrapf("failed to send request", Errorf("transport", "")),
          version |-> ""]
  ELSE IF h.status = StatusUnauthorized
    THEN [err |-> Errorf("auth", "authentication failed, please check your credentials"),
          version |-> ""]
  ELSE IF h.status # StatusOK
    THEN [err |-> Errorf("status", "unwanted response status"), version |-> ""]
  ELSE [err |-> NoErr, version |-> h.body]

\* The zero Stats, and the Stats a server reports.
Stats == [StartedAt |-> "", Uptime |-> "", QueuedWrites |-> 0]
ServerStats == [StartedAt |-> "2025-01-01", Uptime |-> "1h", QueuedWrites |-> 2]

\* What the transport and the server do to one GET /stats.
StatsOutcomes ==
  {[net |-> "fail", status |-> 0, decodes |-> FALSE, stats |-> Stats]}
  \cup {[net |-> "ok", status |-> s, decodes |-> FALSE, stats |-> Stats] :
          s \in {StatusOK, StatusUnauthorized} \cup OtherStatuses}
  \cup {[net |-> "ok", status |-> s, decodes |-> TRUE, stats |-> ServerStats] :
          s \in {StatusOK, StatusUnauthorized} \cup OtherStatuses}

\* Client.GetStats.
GetStats(h) ==
  IF h.net = "fail"
    THEN [err |-> Wrapf("failed to send request", Errorf("transport", "")),
          stats |-> Stats]
  ELSE IF h.status = StatusUnauthorized
    THEN [err |-> Errorf("auth", "authentication failed, please check your credentials"),
          stats |-> Stats]
  ELSE IF h.status # StatusOK
    THEN [err |-> Errorf("status", "unwanted response status"), stats |-> Stats]
  ELSE IF ~h.decodes
    THEN [err |-> Wrapf("failed to decode response", Errorf("decode", "")),
          stats |-> Stats]
  ELSE [err |-> NoErr, stats |-> h.stats]

\* The HTTP requests GetVersion and GetStats build.
GetVersionRequest == newRequest("GET", "/version", <<>>)
GetStatsRequest == newRequest("GET", "/stats", <<>>)

\* No wire call was made.
NoWire == [err |-> NoErr, resp |-> QueryResponse]

\* Characters of /health bodies, and strings.ToLower on them.
ToLowerChar(ch) ==
  CASE ch = "O" -> "o"
    [] ch = "K" -> "k"
    [] OTHER -> ch

ToLower(str) == [i \in 1..Len(str) |-> ToLowerChar(str[i])]

\* What the transport and the server do to one GET /health.
\* The X-Server header of the response is "" when the server sends none.
PingOutcomes ==
  {[net |-> "fail", status |-> 0, body |-> <<>>, xserver |-> ""]}
  \cup {[net |-> "ok", status |-> s, body |-> <<"o", "k">>, xserver |-> "nsqlite"] :
          s \in {StatusUnauthorized} \cup OtherStatuses}
  \cup {[net |-> "ok", status |-> StatusOK, body |-> b, xserver |-> x] :
          b \in {<<"o", "k">>, <<"O", "K">>, <<"O", "k">>, <<"n", "o">>, <<>>},
          x \in {"", "nsqlite"}}

\* SendPing asking for the X-Server header as well.
SendPingRequireServerHeader(p) ==
  IF p.net = "fail"
    THEN Wrapf("failed to send request", Errorf("transport", ""))
  ELSE IF p.status # StatusOK
    THEN Errorf("status", "unwanted response status")
  ELSE IF ToLower(p.body) # <<"o", "k">> \/ p.xserver # "nsqlite"
    THEN Errorf("health", "health check expected to return OK")
  ELSE NoErr

\* Client.SendPing: nil iff the transport succeeds, the status is 200 and the
\* body is "ok" in any case.
SendPing(p) ==
  IF p.net = "fail"
    THEN Wrapf("failed to send request", Errorf("transport", ""))
  ELSE IF p.status # StatusOK
    THEN Errorf("status", "unwanted response status")
  ELSE IF ToLower(p.body) # <<"o", "k">>
    THEN Errorf("health", "health check expected to return OK")
  ELSE NoErr

\* Client.IsHealthy.
IsHealthy(p) == SendPing(p)

\* -------------------------------------------------------------- connection

vars == <<open, txId, stmts, last, client, serverOpen, dsn, rows, drv, hist>>

\* A call that returns no value.
NoVal == [kind |-> "none"]

\* No statement takes part in the call.
NoStmt == [query |-> "", preparedTx |-> ""]

\* nsqliteConnector.Connect: a new Conn has the zero txId.
NewConn == ""

\* No QueryRows has been handed out yet.
NoRows == [q |-> NoVal, dest |-> <<>>, calls |-> 0]

\* The goroutines that call Driver.Open and Driver.OpenConnector.
Goroutines == {"g1", "g2"}

\* A goroutine outside the driver: the connection string and the method of
\* its call, where it is in it, what getNSQLiteHTTPClient gave it and what
\* the method returned to it.
IdleCaller ==
  [str |-> <<>>, op |-> "", pc |-> "idle",
   got |-> [err |-> NoErr, client |-> NilClient],
   ret |-> [err |-> NoErr, val |-> NoVal]]

\* The package variables of driver.go before any call: httpClientOnce is
\* unused, httpClient and httpClientErr are nil.  built counts the calls of
\* NewClient (2 stands for two or more), first is the connection string of
\* the first of them.
NoDriver ==
  [once |-> "new", httpClient |-> NilClient, httpClientErr |-> NoErr,
   built |-> 0, first |-> <<>>, callers |-> [g \in Goroutines |-> IdleCaller]]

\* No connection has been issued a transaction id yet.  hist[c] has the id
\* the server issued to c last, how many COMMIT or ROLLBACK requests c has
\* sent tagged with it since (2 stands for two or more), and whether c has
\* sent a request tagged with it after the first of these.
NoHistory ==
  [c \in AllConns |-> [issued |-> "", finished |-> 0, stale |-> FALSE]]

Init ==
  /\ open = [c \in AllConns |-> FALSE]
  /\ txId = [c \in AllConns |-> NewConn]
  /\ stmts = [c \in AllConns |-> <<>>]
  /\ last = [op |-> "init", conn |-> "", preTx |-> "", stmt |-> NoStmt,
             sent |-> <<>>, wire |-> NoWire, err |-> NoErr, val |-> NoVal]
  /\ client = ClientWithToken("secret")
  /\ serverOpen = {}
  /\ dsn = ConnStr
  /\ rows = NoRows
  /\ drv = NoDriver
  /\ hist = NoHistory

\* Conn.setTxId.
setTxId(c, id) == [txId EXCEPT ![c] = id]

\* What a Conn or Stmt method did: the HTTP requests it sent, what the wire client
\* returned to it, the txId it leaves on the connection, and what it returns.
Call(sent, wire, tx, err, val) ==
  [sent |-> sent, wire |-> wire, txId |-> tx, err |-> err, val |-> val]

\* ------------------------------------------------------------ Conn methods

\* Conn.PrepareContext: a Stmt bound to the connection; nothing is sent.
PrepareContext(c, query) ==
  Call(<<>>, NoWire, txId[c], NoErr, [kind |-> "stmt", conn |-> c, query |-> query])

\* BeginTx taking any response that is not an error for a begin response.
BeginTxAnyKind(c, h) ==
  LET q == Query("BEGIN;", <<>>, "")
      w == SendQuery(q, h)
  IN  IF w.err # NoErr \/ w.resp.type = QueryResponseTypeError
        THEN Call(<<PostQuery(<<q>>)>>, w, txId[c],
                  Wrapf("failed to begin transaction", Errorf("response", "")),
                  NoVal)
        ELSE Call(<<PostQuery(<<q>>)>>, w, w.resp.txId, NoErr,
                  [kind |-> "tx", conn |-> c])

\* BeginTx dropping the stored txId when the call fails.
BeginTxClearOnFailure(c, h) ==
  LET q == Query("BEGIN;", <<>>, "")
      w == SendQuery(q, h)
  IN  IF w.err = NoErr /\ w.resp.type = QueryResponseTypeBegin
        THEN Call(<<PostQuery(<<q>>)>>, w, w.resp.txId, NoErr,
                  [kind |-> "tx", conn |-> c])
        ELSE Call(<<PostQuery(<<q>>)>>, w, "",
                  Wrapf("failed to begin transaction", Errorf("response", "")),
                  NoVal)

\* Conn.BeginTx.
BeginTx(c, h) ==
  LET q == Query("BEGIN;", <<>>, "")
      w == SendQuery(q, h)
  IN  IF w.err # NoErr
        THEN Call(<<PostQuery(<<q>>)>>, w, txId[c],
                  Wrapf("failed to begin transaction", w.err), NoVal)
      ELSE IF w.resp.type = QueryResponseTypeError
        THEN Call(<<PostQuery(<<q>>)>>, w, txId[c],
                  Wrapf("failed to begin transaction",
                        Errorf("response", w.resp.error)), NoVal)
      ELSE IF w.resp.type # QueryResponseTypeBegin
        THEN Call(<<PostQuery(<<q>>)>>, w, txId[c], Errorf("unexpected", w.resp.type), NoVal)
      ELSE Call(<<PostQuery(<<q>>)>>, w, setTxId(c, w.resp.txId)[c], NoErr,
                [kind |-> "tx", conn |-> c])

\* CommitTx clearing the txId on success only, without the deferred setTxId.
CommitTxClearOnSuccess(c, h) ==
  IF txId[c] = ""
    THEN Call(<<>>, NoWire, "", NoErr, NoVal)
  ELSE
    LET q == Query("COMMIT", <<>>, txId[c])
        w == SendQuery(q, h)
    IN  IF w.err = NoErr /\ w.resp.type = QueryResponseTypeCommit
          THEN Call(<<PostQuery(<<q>>)>>, w, "", NoErr, NoVal)
          ELSE Call(<<PostQuery(<<q>>)>>, w, txId[c],
                    Wrapf("failed to commit transaction", Errorf("response", "")),
                    NoVal)

\* CommitTx taking any response that is not an error for a commit response.
CommitTxAnyKind(c, h) ==
  IF txId[c] = ""
    THEN Call(<<>>, NoWire, "", NoErr, NoVal)
  ELSE
    LET q == Query("COMMIT", <<>>, txId[c])
        w == SendQuery(q, h)
    IN  IF w.err # NoErr \/ w.resp.type = QueryResponseTypeError
          THEN Call(<<PostQuery(<<q>>)>>, w, "",
                    Wrapf("failed to commit transaction", Errorf("response", "")),
                    NoVal)
          ELSE Call(<<PostQuery(<<q>>)>>, w, "", NoErr, NoVal)

\* Conn.CommitTx: the deferred setTxId("") runs on every return.
CommitTx(c, h) ==
  IF txId[c] = ""
    THEN Call(<<>>, NoWire, setTxId(c, "")[c], NoErr, NoVal)
  ELSE
    LET q == Query("COMMIT", <<>>, txId[c])
        w == SendQuery(q, h)
        tx == setTxId(c, "")[c]
    IN  IF w.err # NoErr
          THEN Call(<<PostQuery(<<q>>)>>, w, tx,
                    Wrapf("failed to commit transaction", w.err), NoVal)
        ELSE IF w.resp.type = QueryResponseTypeError
          THEN Call(<<PostQuery(<<q>>)>>, w, tx,
                    Wrapf("failed to commit transaction",
                          Errorf("response", w.resp.error)), NoVal)
        ELSE IF w.resp.type # QueryResponseTypeCommit
          THEN Call(<<PostQuery(<<q>>)>>, w, tx, Errorf("unexpected", w.resp.type), NoVal)
        ELSE Call(<<PostQuery(<<q>>)>>, w, tx, NoErr, NoVal)

\* RollbackTx without the early return on an empty txId.
RollbackTxAlwaysSend(c, h) ==
  LET q == Query("ROLLBACK", <<>>, txId[c])
      w == SendQuery(q, h)
  IN  IF w.err = NoErr /\ w.resp.type = QueryResponseTypeRollback
        THEN Call(<<PostQuery(<<q>>)>>, w, "", NoErr, NoVal)
        ELSE Call(<<PostQuery(<<q>>)>>, w, "",
                  Wrapf("failed to rollback transaction", Errorf("response", "")),
                  NoVal)

\* RollbackTx sending ROLLBACK without the txId of the transaction.
RollbackTxUntagged(c, h) ==
  IF txId[c] = ""
    THEN Call(<<>>, NoWire, "", NoErr, NoVal)
  ELSE
    LET q == Query("ROLLBACK", <<>>, "")
        w == SendQuery(q, h)
    IN  IF w.err = NoErr /\ w.resp.type = QueryResponseTypeRollback
          THEN Call(<<PostQuery(<<q>>)>>, w, "", NoErr, NoVal)
          ELSE Call(<<PostQuery(<<q>>)>>, w, "",
                    Wrapf("failed to rollback transaction", Errorf("response", "")),
                    NoVal)

\* Conn.RollbackTx: the deferred setTxId("") runs on every return.
RollbackTx(c, h) ==
  IF txId[c] = ""
    THEN Call(<<>>, NoWire, setTxId(c, "")[c], NoErr, NoVal)
  ELSE
    LET q == Query("ROLLBACK", <<>>, txId[c])
        w == SendQuery(q, h)
        tx == setTxId(c, "")[c]
    IN  IF w.err # NoErr
          THEN Call(<<PostQuery(<<q>>)>>, w, tx,
                    Wrapf("failed to rollback transaction", w.err), NoVal)
        ELSE IF w.resp.type = QueryResponseTypeError
          THEN Call(<<PostQuery(<<q>>)>>, w, tx,
                    Wrapf("failed to rollback transaction",
                          Errorf("response", w.resp.error)), NoVal)
        ELSE IF w.resp.type # QueryResponseTypeRollback
          THEN Call(<<PostQuery(<<q>>)>>, w, tx, Errorf("unexpected", w.resp.type), NoVal)
        ELSE Call(<<PostQuery(<<q>>)>>, w, tx, NoErr, NoVal)

\* Conn.Close: rolls back, and wraps the rollback's error.
Close(c, h) ==
  LET r == RollbackTx(c, h)
  IN  IF r.err # NoErr
        THEN [r EXCEPT !.err = Wrapf("failed closing connection", r.err)]
        ELSE r

\* ResetSession wrapping the rollback's error as Close does, without
\* driver.ErrBadConn.
ResetSessionPlainWrap(c, h) ==
  LET r == RollbackTx(c, h)
  IN  IF r.err # NoErr
        THEN [r EXCEPT !.err = Wrapf("error resetting session", r.err)]
        ELSE r

\* Conn.ResetSession: rolls back, and joins the rollback's error with
\* driver.ErrBadConn.
ResetSession(c, h) ==
  LET r == RollbackTx(c, h)
  IN  IF r.err # NoErr
        THEN [r EXCEPT !.err = JoinBadConn("error resetting session", r.err)]
        ELSE r

\* Conn.Ping: the wire client's ping, untouched.
Ping(c, p) ==
  Call(<<GetHealth>>, [err |-> SendPing(p), resp |-> QueryResponse, http |-> p],
       txId[c], SendPing(p), NoVal)

\* IsValid taking a response of any status and body for a healthy server.
IsValidOnAnyResponse(c, p) ==
  Call(<<GetHealth>>, [err |-> IsHealthy(p), resp |-> QueryResponse, http |-> p],
       txId[c], NoErr, [kind |-> "bool", ok |-> p.net = "ok"])

\* Conn.IsValid: true iff the health check returns nil.
IsValid(c, p) ==
  Call(<<GetHealth>>, [err |-> IsHealthy(p), resp |-> QueryResponse, http |-> p],
       txId[c], NoErr, [kind |-> "bool", ok |-> IsHealthy(p) = NoErr])

\* ------------------------------------------------------------ Stmt methods

\* Arguments of an execution, as database/sql hands them over.
ArgLists == {<<>>, <<[ordinal |-> 1, name |-> "", value |-> "x"]>>}

\* convertNamedValueToAnyArray: the values, in order.
convertNamedValueToAnyArray(args) == [i \in 1..Len(args) |-> args[i].value]

\* The name and the value a parameter has on the wire when an element of
\* the []any is put in Query.Params: a bare value has no name.
ParamName(param) == ""
ParamValue(param) == param

\* A Go slice: nil, or a slice of elements.
NilSlice == [nil |-> TRUE, elems |-> <<>>]
Slice(elems) == [nil |-> FALSE, elems |-> elems]

\* convertValueToNamedValue counting the ordinals from 0.
convertValueToNamedValueFromZero(args) ==
  IF Len(args) = 0
    THEN NilSlice
    ELSE Slice([i \in 1..Len(args) |->
                  [ordinal |-> i - 1, name |-> "", value |-> args[i]]])

\* convertValueToNamedValue: positional values get the ordinals 1, 2, ...
convertValueToNamedValue(args) ==
  IF Len(args) = 0
    THEN NilSlice
    ELSE Slice([i \in 1..Len(args) |->
                  [ordinal |-> i, name |-> "", value |-> args[i]]])

\* ExecContext sending the txId of prepare time, as a Stmt with a txId field
\* of its own would.
ExecContextPrepareTimeTx(c, s, args, h) ==
  LET q == Query(s.query, convertNamedValueToAnyArray(args), s.preparedTx)
      w == SendQuery(q, h)
  IN  IF w.err # NoErr \/ w.resp.type = QueryResponseTypeError
        THEN Call(<<PostQuery(<<q>>)>>, w, txId[c],
                  Wrapf("failed to execute query", Errorf("response", "")), NoVal)
        ELSE Call(<<PostQuery(<<q>>)>>, w, txId[c], NoErr,
                  [kind |-> "result", lastInsertId |-> w.resp.lastInsertId,
                   rowsAffected |-> w.resp.rowsAffected])

\* ExecContext giving up the transaction when the execution fails.
ExecContextClearOnError(c, s, args, h) ==
  LET q == Query(s.query, convertNamedValueToAnyArray(args), txId[c])
      w == SendQuery(q, h)
  IN  IF w.err # NoErr \/ w.resp.type = QueryResponseTypeError
        THEN Call(<<PostQuery(<<q>>)>>, w, "",
                  Wrapf("failed to execute query", Errorf("response", "")), NoVal)
        ELSE Call(<<PostQuery(<<q>>)>>, w, txId[c], NoErr,
                  [kind |-> "result", lastInsertId |-> w.resp.lastInsertId,
                   rowsAffected |-> w.resp.rowsAffected])

\* Stmt.ExecContext on a statement of connection c.
ExecContext(c, s, args, h) ==
  LET q == Query(s.query, convertNamedValueToAnyArray(args), txId[c])
      w == SendQuery(q, h)
  IN  IF w.err # NoErr
        THEN Call(<<PostQuery(<<q>>)>>, w, txId[c],
                  Wrapf("failed to execute query", w.err), NoVal)
      ELSE IF w.resp.type = QueryResponseTypeError
        THEN Call(<<PostQuery(<<q>>)>>, w, txId[c],
                  Wrapf("failed to execute query",
                        Errorf("response", w.resp.error)), NoVal)
      ELSE Call(<<PostQuery(<<q>>)>>, w, txId[c], NoErr,
                [kind |-> "result", lastInsertId |-> w.resp.lastInsertId,
                 rowsAffected |-> w.resp.rowsAffected])

\* QueryContext without the check of the response kind, as ExecContext.
QueryContextAnyKind(c, s, args, h) ==
  LET q == Query(s.query, convertNamedValueToAnyArray(args), txId[c])
      w == SendQuery(q, h)
  IN  IF w.err # NoErr
        THEN Call(<<PostQuery(<<q>>)>>, w, txId[c],
                  Wrapf("failed to execute query", w.err), NoVal)
      ELSE IF w.resp.type = QueryResponseTypeError
        THEN Call(<<PostQuery(<<q>>)>>, w, txId[c],
                  Wrapf("failed to execute query",
                        Errorf("response", w.resp.error)), NoVal)
      ELSE Call(<<PostQuery(<<q>>)>>, w, txId[c], NoErr,
                [kind |-> "rows", columns |-> w.resp.columns,
                 types |-> w.resp.types, values |-> w.resp.rows,
                 valuesLen |-> Len(w.resp.rows), rowIdx |-> 0])

\* QueryContext sending the query a second time when the transport failed.
QueryContextResend(c, s, args, h) ==
  LET q == Query(s.query, convertNamedValueToAnyArray(args), txId[c])
      w == SendQuery(q, h)
  IN  IF w.err # NoErr
        THEN Call(IF w.err.kind = "transport"
                    THEN <<PostQuery(<<q>>), PostQuery(<<q>>)>>
                    ELSE <<PostQuery(<<q>>)>>,
                  w, txId[c], Wrapf("failed to execute query", w.err), NoVal)
      ELSE IF w.resp.type = QueryResponseTypeError
        THEN Call(<<PostQuery(<<q>>)>>, w, txId[c],
                  Wrapf("failed to execute query",
                        Errorf("response", w.resp.error)), NoVal)
      ELSE IF w.resp.type # QueryResponseTypeRead
        THEN Call(<<PostQuery(<<q>>)>>, w, txId[c],
                  Errorf("unexpected", w.resp.type), NoVal)
      ELSE Call(<<PostQuery(<<q>>)>>, w, txId[c], NoErr,
                [kind |-> "rows", columns |-> w.resp.columns,
                 types |-> w.resp.types, values |-> w.resp.rows,
                 valuesLen |-> Len(w.resp.rows), rowIdx |-> 0])

\* Stmt.QueryContext on a statement of connection c.
QueryContext(c, s, args, h) ==
  LET q == Query(s.query, convertNamedValueToAnyArray(args), txId[c])
      w == SendQuery(q, h)
  IN  IF w.err # NoErr
        THEN Call(<<PostQuery(<<q>>)>>, w, txId[c],
                  Wrapf("failed to execute query", w.err), NoVal)
      ELSE IF w.resp.type = QueryResponseTypeError
        THEN Call(<<PostQuery(<<q>>)>>, w, txId[c],
                  Wrapf("failed to execute query",
                        Errorf("response", w.resp.error)), NoVal)
      ELSE IF w.resp.type # QueryResponseTypeRead
        THEN Call(<<PostQuery(<<q>>)>>, w, txId[c],
                  Errorf("unexpected", w.resp.type), NoVal)
      ELSE Call(<<PostQuery(<<q>>)>>, w, txId[c], NoErr,
                [kind |-> "rows", columns |-> w.resp.columns,
                 types |-> w.resp.types, values |-> w.resp.rows,
                 valuesLen |-> Len(w.resp.rows), rowIdx |-> 0])

\* ---------------------------------------------------------------- QueryRows

\* io.EOF.
EOF == Errorf("eof", "EOF")

\* A driver.Value not yet written by Next.
Nil == "nil"

\* QueryRows.Next clearing the destination when the rows are used up.
NextClearAtEnd(r, dest) ==
  IF r.rowIdx >= r.valuesLen
    THEN [q |-> r, dest |-> [i \in 1..Len(dest) |-> Nil], err |-> EOF]
    ELSE LET row == r.values[r.rowIdx + 1]
         IN  [q |-> [r EXCEPT !.rowIdx = @ + 1],
              dest |-> [i \in 1..Len(dest) |->
                          IF i <= Len(row) THEN row[i] ELSE dest[i]],
              err |-> NoErr]

\* QueryRows.Next on the rows r and the caller's slice dest: the values of the
\* row at rowIdx are copied over the first entries of dest, which is at least
\* as long as the row (database/sql makes it as long as Columns()).
QueryRowsNext(r, dest) ==
  IF r.rowIdx >= r.valuesLen
    THEN [q |-> r, dest |-> dest, err |-> EOF]
    ELSE LET row == r.values[r.rowIdx + 1]
         IN  [q |-> [r EXCEPT !.rowIdx = @ + 1],
              dest |-> [i \in 1..Len(dest) |->
                          IF i <= Len(row) THEN row[i] ELSE dest[i]],
              err |-> NoErr]

\* strings.ToUpper on the names of the types a server declares.
ToUpper(name) ==
  CASE name = "integer" -> "INTEGER"
    [] name = "text" -> "TEXT"
    [] name = "Real" -> "REAL"
    [] name = "blob" -> "BLOB"
    [] OTHER -> name

\* The declared types and their names in upper case.
UpperCased ==
  {<<"integer", "INTEGER">>, <<"text", "TEXT">>, <<"Real", "REAL">>,
   <<"blob", "BLOB">>, <<"TEXT", "TEXT">>}

\* QueryRows.ColumnTypeDatabaseTypeName answering every index with a type.
ColumnTypeDatabaseTypeNameClamped(r, index) ==
  IF index < 0
    THEN ""
  ELSE IF index >= Len(r.types)
    THEN IF r.types = <<>> THEN "" ELSE ToUpper(r.types[Len(r.types)])
  ELSE ToUpper(r.types[index + 1])

\* QueryRows.ColumnTypeDatabaseTypeName; index counts from 0.
ColumnTypeDatabaseTypeName(r, index) ==
  IF index < 0
    THEN ""
  ELSE IF index >= Len(r.types)
    THEN ""
  ELSE ToUpper(r.types[index + 1])

\* ----------------------------------------------------------------- actions

\* The call returns with the txId kept in one place for all connections, as
\* if it were a field of the client they share.
ReturnSharedTxId(op, c, s, r) ==
  /\ txId' = [x \in AllConns |-> r.txId]
  /\ last' = [op |-> op, conn |-> c, preTx |-> txId[c], stmt |-> s,
              sent |-> r.sent, wire |-> r.wire, err |-> r.err, val |-> r.val]

\* The call returns: the connection takes the txId the method left, and the
\* call is recorded.
Return(op, c, s, r) ==
  /\ txId' = [txId EXCEPT ![c] = r.txId]
  /\ last' = [op |-> op, conn |-> c, preTx |-> txId[c], stmt |-> s,
              sent |-> r.sent, wire |-> r.wire, err |-> r.err, val |-> r.val]

\* connector.Connect hands out connection c.
StepConnect(c) ==
  /\ ~open[c]
  /\ open' = [open EXCEPT ![c] = TRUE]
  /\ stmts' = [stmts EXCEPT ![c] = <<>>]
  /\ Return("Connect", c, NoStmt, Call(<<>>, NoWire, NewConn, NoErr, NoVal))

\* Conn.PrepareContext; the statement remembers, for the record only, the
\* txId the connection had when it was prepared.
StepPrepare(c) ==
  /\ open[c]
  /\ Len(stmts[c]) < MaxStmts
  /\ \E query \in Queries :
       LET s == [query |-> query, preparedTx |-> txId[c]]
       IN  /\ stmts' = [stmts EXCEPT ![c] = Append(@, s)]
           /\ Return("Prepare", c, s, PrepareContext(c, query))
  /\ UNCHANGED open

\* Stmt.Close: the statement is dropped; nothing else happens.
StepStmtClose(c) ==
  /\ open[c]
  /\ \E i \in 1..Len(stmts[c]) :
       /\ stmts' = [stmts EXCEPT ![c] =
                      SubSeq(@, 1, i - 1) \o SubSeq(@, i + 1, Len(@))]
       /\ Return("StmtClose", c, stmts[c][i],
                 Call(<<>>, NoWire, txId[c], NoErr, NoVal))
  /\ UNCHANGED open

StepExec(c) ==
  /\ open[c]
  /\ \E i \in 1..Len(stmts[c]), args \in ArgLists, h \in HttpOutcomes :
       Return("ExecContext", c, stmts[c][i], ExecContext(c, stmts[c][i], args, h))
  /\ UNCHANGED <<open, stmts>>

StepQuery(c) ==
  /\ open[c]
  /\ \E i \in 1..Len(stmts[c]), args \in ArgLists, h \in HttpOutcomes :
       Return("QueryContext", c, stmts[c][i], QueryContext(c, stmts[c][i], args, h))
  /\ UNCHANGED <<open, stmts>>

StepBeginTx(c) ==
  /\ open[c]
  /\ \E h \in HttpOutcomes : Return("BeginTx", c, NoStmt, BeginTx(c, h))
  /\ UNCHANGED <<open, stmts>>

StepCommitTx(c) ==
  /\ open[c]
  /\ \E h \in HttpOutcomes : Return("CommitTx", c, NoStmt, CommitTx(c, h))
  /\ UNCHANGED <<open, stmts>>

StepRollbackTx(c) ==
  /\ open[c]
  /\ \E h \in HttpOutcomes : Return("RollbackTx", c, NoStmt, RollbackTx(c, h))
  /\ UNCHANGED <<open, stmts>>

StepResetSession(c) ==
  /\ open[c]
  /\ \E h \in HttpOutcomes : Return("ResetSession", c, NoStmt, ResetSession(c, h))
  /\ UNCHANGED <<open, stmts>>

StepPing(c) ==
  /\ open[c]
  /\ \E p \in PingOutcomes : Return("Ping", c, NoStmt, Ping(c, p))
  /\ UNCHANGED <<open, stmts>>

StepIsValid(c) ==
  /\ open[c]
  /\ \E p \in PingOutcomes : Return("IsValid", c, NoStmt, IsValid(c, p))
  /\ UNCHANGED <<open, stmts>>

\* Conn.Close: the connection is not used again.
StepClose(c) ==
  /\ open[c]
  /\ open' = [open EXCEPT ![c] = FALSE]
  /\ stmts' = [stmts EXCEPT ![c] = <<>>]
  /\ \E h \in HttpOutcomes : Return("Close", c, NoStmt, Close(c, h))

\* The shared client is not replaced, and the server's own state is left out.
Quiet == UNCHANGED <<client, serverOpen, dsn, rows, drv, hist>>

\* A single caller using one connection.
Next ==
  \E c \in Conns :
    \/ StepConnect(c) /\ Quiet
    \/ StepPrepare(c) /\ Quiet
    \/ StepStmtClose(c) /\ Quiet
    \/ StepExec(c) /\ Quiet
    \/ StepQuery(c) /\ Quiet
    \/ StepBeginTx(c) /\ Quiet
    \/ StepCommitTx(c) /\ Quiet
    \/ StepRollbackTx(c) /\ Quiet
    \/ StepResetSession(c) /\ Quiet
    \/ StepPing(c) /\ Quiet
    \/ StepIsValid(c) /\ Quiet
    \/ StepClose(c) /\ Quiet

Spec == Init /\ [][Next]_vars

\* ------------------------------------------------------------ remote server

\* The query of the call's request to /query, if it sent one.
SentQuery(call) ==
  IF Len(call.sent) = 1 /\ call.sent[1].path = "/query"
                        /\ Len(call.sent[1].body) >= 1
    THEN call.sent[1].body[1]
    ELSE Query("", <<>>, "")

\* The transactions open on the server after a call, given those open before
\* it.  A begin response tells that the server started the transaction whose
\* id it carries; a commit or rollback response that it ended the transaction
\* the query was tagged with.  When the caller got no such answer (the
\* transport failed, the status or the body was unusable, or an error came
\* back), a BEGIN, COMMIT or ROLLBACK it sent may have taken effect or not.
ServerAfter(opened, call) ==
  LET q == SentQuery(call)
      w == call.wire
  IN  IF q.query = ""
        THEN {opened}
      ELSE IF w.err = NoErr /\ w.resp.type = QueryResponseTypeBegin
        THEN {opened \cup {w.resp.txId}}
      ELSE IF w.err = NoErr
              /\ w.resp.type \in {QueryResponseTypeCommit, QueryResponseTypeRollback}
        THEN {opened \ {q.txId}}
      ELSE IF w.err = NoErr /\ w.resp.type # QueryResponseTypeError
        THEN {opened}
      ELSE IF q.query = "BEGIN;"
        THEN {opened} \cup {opened \cup {t} : t \in TxIds \ opened}
      ELSE IF q.query \in {"COMMIT", "ROLLBACK"}
        THEN {opened, opened \ {q.txId}}
      ELSE {opened}

\* The server takes its part in the call just made; the id of a begin
\* response is not that of a transaction already open.
Served ==
  /\ UNCHANGED <<client, dsn, rows, drv, hist>>
  /\ (last'.wire.err = NoErr /\ last'.wire.resp.type = QueryResponseTypeBegin)
       => last'.wire.resp.txId \notin serverOpen
  /\ serverOpen' \in ServerAfter(serverOpen, last')

\* A single caller using one connection, and the server it talks to: the
\* calls that send queries, and those that open and close the connection.
NextServer ==
  \E c \in Conns :
    \/ StepConnect(c) /\ Served
    \/ StepPrepare(c) /\ Served
    \/ StepExec(c) /\ Served
    \/ StepQuery(c) /\ Served
    \/ StepBeginTx(c) /\ Served
    \/ StepCommitTx(c) /\ Served
    \/ StepRollbackTx(c) /\ Served
    \/ StepResetSession(c) /\ Served
    \/ StepClose(c) /\ Served

SpecServer == Init /\ [][NextServer]_vars

\* ------------------------------------------------------ wire client alone

\* The batches a caller hands to SendQueries: one to MaxBatch queries.
BatchQueries == {Query("SELECT", <<>>, ""), Query("INSERT", <<>>, "tx1")}
Batches == UNION {[1..n -> BatchQueries] : n \in 1..MaxBatch}

\* The results lists a server envelope can hold: any number of results up to
\* MaxBatch, of either kind, whatever the batch was.
BatchResponses ==
  {[QueryResponse EXCEPT !.type = QueryResponseTypeWrite, !.rowsAffected = 1],
   [QueryResponse EXCEPT !.type = QueryResponseTypeRead, !.columns = <<"id">>,
                         !.types = <<"integer">>]}
Envelopes == UNION {[1..n -> BatchResponses] : n \in 0..MaxBatch}

\* The caller's context is cancelled, or its deadline passes, while the call
\* is in flight: before a response arrives, so that httpc.Do fails, or after
\* a 200 response arrived and before its body is read to the end, so that
\* the read under Decode fails.
CancelledOutcomes ==
  {[net |-> "fail", status |-> 0, decodes |-> FALSE, results |-> <<>>,
    ctx |-> "doneInDo"],
   [net |-> "ok", status |-> StatusOK, decodes |-> FALSE, results |-> <<>>,
    ctx |-> "doneInBody"]}

\* What the transport and the server do to one POST /query of a batch; a
\* status other than 200 may come with a body that decodes too.
BatchOutcomes ==
  {[net |-> "fail", status |-> 0, decodes |-> FALSE, results |-> <<>>, ctx |-> "live"]}
  \cup {[net |-> "ok", status |-> s, decodes |-> FALSE, results |-> <<>>, ctx |-> "live"] :
          s \in {StatusUnauthorized, StatusOK} \cup OtherStatuses}
  \cup {[net |-> "ok", status |-> s, decodes |-> TRUE,
         results |-> <<CHOOSE r \in BatchResponses : TRUE>>, ctx |-> "live"] :
          s \in {StatusUnauthorized} \cup OtherStatuses}
  \cup {[net |-> "ok", status |-> StatusOK, decodes |-> TRUE, results |-> e,
         ctx |-> "live"] :
          e \in Envelopes}
  \cup CancelledOutcomes

\* The client as NewClient builds it from a descriptor, with or without a token.
InitWire ==
  /\ open = [c \in AllConns |-> FALSE]
  /\ txId = [c \in AllConns |-> NewConn]
  /\ stmts = [c \in AllConns |-> <<>>]
  /\ last = [op |-> "init", conn |-> "", preTx |-> "", stmt |-> NoStmt,
             sent |-> <<>>, wire |-> NoWire, err |-> NoErr, val |-> NoVal]
  /\ client \in {ClientWithToken(t) : t \in AuthTokens}
  /\ serverOpen = {}
  /\ dsn = ConnStr
  /\ rows = NoRows
  /\ drv = NoDriver
  /\ hist = NoHistory

\* A call of a Client method: the request it sent, the raw outcome h, and
\* what it returned.
WireReturn(op, request, h, err, val) ==
  /\ last' = [op |-> op, conn |-> "", preTx |-> "", stmt |-> NoStmt,
              sent |-> <<request>>,
              wire |-> [err |-> err, resp |-> QueryResponse, http |-> h],
              err |-> err, val |-> val]
  /\ UNCHANGED <<open, txId, stmts, client, serverOpen, dsn, rows, drv, hist>>

StepSendQueries ==
  \E queries \in Batches, h \in BatchOutcomes :
    LET r == SendQueries(queries, h)
    IN  WireReturn("SendQueries", PostQuery(queries), h, r.err,
                   [kind |-> "responses", responses |-> r.responses])

StepSendQuery ==
  \E query \in BatchQueries, h \in HttpOutcomes :
    LET r == SendQuery(query, h)
    IN  WireReturn("SendQuery", PostQuery(<<query>>), h, r.err,
                   [kind |-> "response", resp |-> r.resp])

StepSendPing ==
  \E p \in PingOutcomes :
    WireReturn("SendPing", GetHealth, p, SendPing(p), NoVal)

StepIsHealthy ==
  \E p \in PingOutcomes :
    WireReturn("IsHealthy", GetHealth, p, IsHealthy(p), NoVal)

StepGetVersion ==
  \E h \in VersionOutcomes :
    LET r == GetVersion(h)
    IN  WireReturn("GetVersion", GetVersionRequest, h, r.err,
                   [kind |-> "version", version |-> r.version])

StepGetStats ==
  \E h \in StatsOutcomes :
    LET r == GetStats(h)
    IN  WireReturn("GetStats", GetStatsRequest, h, r.err,
                   [kind |-> "stats", stats |-> r.stats])

NextWire ==
  \/ StepSendQueries
  \/ StepSendQuery
  \/ StepSendPing
  \/ StepIsHealthy
  \/ StepGetVersion
  \/ StepGetStats

SpecWire == InitWire /\ [][NextWire]_vars

\* ------------------------------------------------- connection string alone

\* The texts handed to NewConnStrFromText: a scheme or none, a separator, an
\* authority with or without host, port and path, a query or none.
TextSchemes == {<<>>, <<"http">>, <<"https">>, <<"ftp">>, <<"HTTP">>}
TextSeparators == {<<":", "/", "/">>, <<"/", "/">>, <<":">>, <<>>}
TextAuthorities ==
  {<<>>, <<"example.com">>, <<"example.com", ":", "8080">>, <<"example.com", ":">>,
   <<"example.com", ":", "x">>, <<":", "8080">>,
   <<"example.com", ":", "8080", "/", "x">>, <<"a%2Fb">>}
TextQueries ==
  {<<>>, <<"?", "authToken", "=", "secret">>,
   <<"?", "x", "=", "y", "&", "authToken", "=", "a%2Fb">>,
   <<"?", "authToken", "=", "secret", "&", "authToken", "=", "x">>}

\* No two words are adjacent in t.
WellFormedText(t) ==
  \A i \in 1..(Len(t) - 1) : t[i] \in Punct \/ t[i + 1] \in Punct

Texts ==
  {t \in {s \o p \o a \o q : s \in TextSchemes, p \in TextSeparators,
                             a \in TextAuthorities, q \in TextQueries} :
     WellFormedText(t)}

\* The descriptors a caller writes as a struct literal, any field left empty.
Literals ==
  [Protocol : {<<>>, <<"https">>}, Host : {<<>>, <<"example.com">>},
   Port : {<<>>, <<"8080">>}, AuthToken : {<<>>, <<"secret">>, <<"abc123">>}]

\* The paths handed to CreateUrlStr and CreateUrl.
Paths ==
  {<<>>, <<"/">>, <<"api", "/", "v1">>, <<"/", "api", "/", "v1">>, <<"api", "/">>,
   <<"search", "?", "q", "=", "x">>, <<"?", "q", "=", "x">>,
   <<"/", "?", "q", "=", "x">>, <<"search", "?">>,
   <<"search", "?", "a", "=", "1", "?", "b", "=", "2">>}

InitDsn ==
  /\ open = [c \in AllConns |-> FALSE]
  /\ txId = [c \in AllConns |-> NewConn]
  /\ stmts = [c \in AllConns |-> <<>>]
  /\ last = [op |-> "init", text |-> <<>>, path |-> <<>>, pre |-> ConnStr,
             out |-> <<>>, url |-> ParseError, err |-> NoErr]
  /\ client = ClientWithToken("secret")
  /\ serverOpen = {}
  /\ dsn = ConnStr
  /\ rows = NoRows
  /\ drv = NoDriver
  /\ hist = NoHistory

\* A call that makes, or a call on, the descriptor: the arguments, the
\* descriptor it was called on (ConnStr{} when it makes one), what the call
\* returned; the descriptor held is the one the call leaves or returns.
DsnReturn(op, text, path, pre, r) ==
  /\ dsn' = r.connStr
  /\ last' = [op |-> op, text |-> text, path |-> path, pre |-> pre,
              out |-> r.out, url |-> r.url, err |-> r.err]
  /\ UNCHANGED <<open, txId, stmts, client, serverOpen, rows, drv, hist>>

StepNewConnStrFromText ==
  \E text \in Texts :
    LET r == NewConnStrFromText(text)
    IN  DsnReturn("NewConnStrFromText", text, <<>>, ConnStr,
                  Result(r.connStr, <<>>, ParseError, r.err))

StepLiteral ==
  \E c \in Literals :
    DsnReturn("ConnStr", <<>>, <<>>, ConnStr, Result(c, <<>>, ParseError, NoErr))

StepString == DsnReturn("String", <<>>, <<>>, dsn, String(dsn))

StepBaseUrlStr == DsnReturn("BaseUrlStr", <<>>, <<>>, dsn, BaseUrlStr(dsn))

StepCreateUrlStr ==
  \E path \in Paths :
    DsnReturn("CreateUrlStr", <<>>, path, dsn, CreateUrlStr(dsn, path))

StepCreateUrl ==
  \E path \in Paths :
    DsnReturn("CreateUrl", <<>>, path, dsn, CreateUrl(dsn, path))

NextDsn ==
  \/ StepNewConnStrFromText
  \/ StepLiteral
  \/ StepString
  \/ StepBaseUrlStr
  \/ StepCreateUrlStr
  \/ StepCreateUrl

SpecDsn == InitDsn /\ [][NextDsn]_vars

\* ---------------------------------------------------------- rows of a query

\* The read responses a server answers a SELECT with: no row to three rows,
\* each as wide as the columns; the declared types are the server's to choose
\* and may be fewer than the columns.
RowsResponses ==
  {[QueryResponse EXCEPT !.type = QueryResponseTypeRead,
                         !.columns = <<"id", "name">>,
                         !.types = <<"integer", "text">>,
                         !.rows = << <<"1", "a">>, <<"2", "b">> >>],
   [QueryResponse EXCEPT !.type = QueryResponseTypeRead,
                         !.columns = <<"id", "name">>,
                         !.types = <<"Real", "blob">>,
                         !.rows = << <<"1", "a">>, <<"2", "b">> >>],
   [QueryResponse EXCEPT !.type = QueryResponseTypeRead,
                         !.columns = <<"id">>,
                         !.rows = << <<"1">> >>],
   [QueryResponse EXCEPT !.type = QueryResponseTypeRead,
                         !.columns = <<"id">>,
                         !.types = <<"integer">>],
   [QueryResponse EXCEPT !.type = QueryResponseTypeRead,
                         !.columns = <<"name">>,
                         !.types = <<"TEXT">>,
                         !.rows = << <<"a">>, <<"a">>, <<"b">> >>]}

RowsOutcomes ==
  {[net |-> "fail", status |-> 0, decodes |-> FALSE, results |-> <<>>, ctx |-> "live"]}
  \cup {[net |-> "ok", status |-> StatusOK, decodes |-> TRUE, results |-> <<r>>,
          ctx |-> "live"] : r \in RowsResponses}

\* The column indexes a caller asks the type of: below, within and above any
\* list of declared types.
Indexes == (-1)..3

\* The statement whose rows are iterated.
RowsStmt == [query |-> "SELECT", preparedTx |-> ""]

InitRows ==
  /\ open = [c \in AllConns |-> c \in Conns]
  /\ txId = [c \in AllConns |-> NewConn]
  /\ stmts = [c \in AllConns |-> IF c \in Conns THEN <<RowsStmt>> ELSE <<>>]
  /\ last = [op |-> "init", index |-> 0, pre |-> NoRows, err |-> NoErr,
             val |-> NoVal]
  /\ client = ClientWithToken("secret")
  /\ serverOpen = {}
  /\ dsn = ConnStr
  /\ rows = NoRows
  /\ drv = NoDriver
  /\ hist = NoHistory

\* A call on the statement or on its rows returns: the caller holds the rows
\* r and the call is recorded with the rows as they were before it.
RowsReturn(op, index, r, err, val) ==
  /\ rows' = r
  /\ last' = [op |-> op, index |-> index, pre |-> rows, err |-> err, val |-> val]
  /\ UNCHANGED <<open, txId, stmts, client, serverOpen, dsn, drv, hist>>

\* Stmt.QueryContext; database/sql makes the destination as long as Columns().
StepRowsQueryContext ==
  \E c \in Conns, h \in RowsOutcomes :
    LET r == QueryContext(c, RowsStmt, <<>>, h)
    IN  RowsReturn("QueryContext", 0,
                   IF r.err = NoErr
                     THEN [q |-> r.val,
                           dest |-> [i \in 1..Len(r.val.columns) |-> Nil],
                           calls |-> 0]
                     ELSE rows,
                   r.err, r.val)

StepRowsNext ==
  /\ rows.q.kind = "rows"
  /\ rows.calls < MaxCalls
  /\ LET n == QueryRowsNext(rows.q, rows.dest)
     IN  RowsReturn("Next", 0,
                    [q |-> n.q, dest |-> n.dest, calls |-> rows.calls + 1],
                    n.err, NoVal)

StepRowsColumnTypeDatabaseTypeName ==
  /\ rows.q.kind = "rows"
  /\ \E index \in Indexes :
       RowsReturn("ColumnTypeDatabaseTypeName", index, rows, NoErr,
                  [kind |-> "name",
                   name |-> ColumnTypeDatabaseTypeName(rows.q, index)])

NextRows ==
  \/ StepRowsQueryContext
  \/ StepRowsNext
  \/ StepRowsColumnTypeDatabaseTypeName

SpecRows == InitRows /\ [][NextRows]_vars

\* ------------------------------------------------- statement arguments alone

\* The arguments database/sql hands to ExecContext and QueryContext: each has
\* its position as ordinal, a name or none, and a value.
ArgNames == {"", "exampleName"}
ArgValues == {"42", "example"}
NamedArgLists ==
  UNION {{[i \in 1..n |-> [ordinal |-> i, name |-> f[i][1], value |-> f[i][2]]] :
            f \in [1..n -> ArgNames \X ArgValues]} : n \in 0..MaxArgs}

\* The positional values the older Exec and Query are given.
ValueLists == UNION {[1..n -> ArgValues \cup {"3.14"}] : n \in 0..MaxArgs}

InitArgs ==
  /\ open = [c \in AllConns |-> FALSE]
  /\ txId = [c \in AllConns |-> NewConn]
  /\ stmts = [c \in AllConns |-> <<>>]
  /\ last = [op |-> "init", args |-> <<>>, val |-> <<>>]
  /\ client = ClientWithToken("secret")
  /\ serverOpen = {}
  /\ dsn = ConnStr
  /\ rows = NoRows
  /\ drv = NoDriver
  /\ hist = NoHistory

ArgsReturn(op, args, val) ==
  /\ last' = [op |-> op, args |-> args, val |-> val]
  /\ UNCHANGED <<open, txId, stmts, client, serverOpen, dsn, rows, drv, hist>>

StepConvertNamedValueToAnyArray ==
  \E args \in NamedArgLists :
    ArgsReturn("convertNamedValueToAnyArray", args,
               convertNamedValueToAnyArray(args))

StepConvertValueToNamedValue ==
  \E args \in ValueLists :
    ArgsReturn("convertValueToNamedValue", args, convertValueToNamedValue(args))

NextArgs ==
  \/ StepConvertNamedValueToAnyArray
  \/ StepConvertValueToNamedValue

SpecArgs == InitArgs /\ [][NextArgs]_vars

\* ----------------------------------------------------- integers on the wire

\* A signed 64-bit integer: its sign and its magnitude as four 16-bit limbs,
\* the most significant first.
Int64(neg, mag) == [neg |-> neg, mag |-> mag]
ZeroMag == <<0, 0, 0, 0>>

\* mag * m + d on the limbs; over tells that the result needs a fifth limb.
MulAdd(mag, m, d) ==
  LET t0 == mag[4] * m + d
      t1 == mag[3] * m + (t0 \div 65536)
      t2 == mag[2] * m + (t1 \div 65536)
      t3 == mag[1] * m + (t2 \div 65536)
  IN  [mag |-> <<t3 % 65536, t2 % 65536, t1 % 65536, t0 % 65536>>,
       over |-> t3 \div 65536 # 0]

\* mag divided by 10000: quotient and remainder.
DivMod10000(mag) ==
  LET u1 == mag[1]
      u2 == (u1 % 10000) * 65536 + mag[2]
      u3 == (u2 % 10000) * 65536 + mag[3]
      u4 == (u3 % 10000) * 65536 + mag[4]
  IN  [quot |-> <<u1 \div 10000, u2 \div 10000, u3 \div 10000, u4 \div 10000>>,
       rem |-> u4 % 10000]

\* strconv.FormatInt in base 10, as the server's encoder writes an integer in
\* the body: the sign, and the decimal digits four at a time (9007 1992 5474
\* 0993 for 2^53 + 1).
RECURSIVE FormatUint(_)
FormatUint(mag) ==
  IF mag = ZeroMag
    THEN <<>>
    ELSE FormatUint(DivMod10000(mag).quot) \o <<DivMod10000(mag).rem>>

FormatInt(v) ==
  [neg |-> v.neg, digits |-> IF v.mag = ZeroMag THEN <<0>> ELSE FormatUint(v.mag)]

\* strconv.ParseUint on decimal digits, four at a time.
RECURSIVE ParseUint(_)
ParseUint(digits) ==
  IF digits = <<>>
    THEN [mag |-> ZeroMag, over |-> FALSE]
    ELSE LET head == ParseUint(SubSeq(digits, 1, Len(digits) - 1))
             r == MulAdd(head.mag, 10000, digits[Len(digits)])
         IN  [mag |-> r.mag, over |-> head.over \/ r.over]

\* strconv.ParseInt for 64 bits: the literal must lie in -2^63 .. 2^63 - 1.
ParseInt(lit) ==
  LET u == ParseUint(lit.digits)
      fits == /\ ~u.over
              /\ \/ u.mag[1] < 32768
                 \/ lit.neg /\ u.mag = <<32768, 0, 0, 0>>
  IN  [ok |-> fits, val |-> IF fits THEN Int64(lit.neg, u.mag) ELSE Int64(FALSE, ZeroMag)]

\* The number of bits of a limb, and of a magnitude.
BitLen(limb) == CHOOSE k \in 0..16 : limb < 2 ^ k /\ (k = 0 \/ limb >= 2 ^ (k - 1))
MagBitLen(mag) ==
  IF mag[1] # 0 THEN 48 + BitLen(mag[1])
  ELSE IF mag[2] # 0 THEN 32 + BitLen(mag[2])
  ELSE IF mag[3] # 0 THEN 16 + BitLen(mag[3])
  ELSE BitLen(mag[4])

\* The float64 nearest to an integer: 53 bits of mantissa, ties to even.
RoundToFloat64(mag) ==
  IF MagBitLen(mag) <= 53
    THEN mag
    ELSE LET unit == 2 ^ (MagBitLen(mag) - 53)
             rem == mag[4] % unit
             kept == <<mag[1], mag[2], mag[3], mag[4] - rem>>
             up == \/ rem * 2 > unit
                   \/ rem * 2 = unit /\ (mag[4] \div unit) % 2 = 1
         IN  IF up THEN MulAdd(kept, 1, unit).mag ELSE kept

\* A JSON number decoded into an interface value without UseNumber: a float64.
DecodeNumberFloat64(lit) ==
  [kind |-> "float64", neg |-> lit.neg,
   mag |-> RoundToFloat64(ParseUint(lit.digits).mag), text |-> <<>>]

\* A JSON number decoded into an interface value under decoder.UseNumber():
\* a json.Number, which is the text of the literal.
DecodeNumber(lit) ==
  [kind |-> "json.Number", neg |-> lit.neg, mag |-> ZeroMag, text |-> lit.digits]

\* The integer a decoded interface value stands for: json.Number.Int64 parses
\* the text, a float64 is the number it was rounded to.
IntegerOf(x) ==
  IF x.kind = "json.Number"
    THEN ParseInt([neg |-> x.neg, digits |-> x.text]).val
    ELSE Int64(x.neg, x.mag)

\* The integers a server sends: around 0, 2^53 and both ends of the
\* signed 64-bit range.
ServerIntegers ==
  ({Int64(neg, <<a, b, b, d>>) :
      neg \in BOOLEAN, a \in {0, 32, 32767}, b \in {0, 65535},
      d \in {0, 1, 2, 3, 65535}}
     \ {Int64(TRUE, ZeroMag)})
  \cup {Int64(TRUE, <<32768, 0, 0, 0>>)}

\* The fields of a response that hold integers.
IntegerFields == {"lastInsertId", "rowsAffected", "rows"}

\* decoder.Decode on the body of a response that has the literal lit in the
\* field: an int64 field is parsed, a cell of rows becomes an interface value.
DecodeBody(field, lit) ==
  IF field = "rows"
    THEN [ok |-> TRUE,
          resp |-> [QueryResponse EXCEPT !.type = QueryResponseTypeRead,
                                         !.columns = <<"id">>,
                                         !.types = <<"integer">>,
                                         !.rows = << <<DecodeNumber(lit)>> >>]]
  ELSE IF ~ParseInt(lit).ok
    THEN [ok |-> FALSE, resp |-> QueryResponse]
  ELSE IF field = "lastInsertId"
    THEN [ok |-> TRUE,
          resp |-> [QueryResponse EXCEPT !.type = QueryResponseTypeWrite,
                                         !.lastInsertId = ParseInt(lit).val]]
  ELSE [ok |-> TRUE,
        resp |-> [QueryResponse EXCEPT !.type = QueryResponseTypeWrite,
                                       !.rowsAffected = ParseInt(lit).val]]

InitNumbers ==
  /\ open = [c \in AllConns |-> FALSE]
  /\ txId = [c \in AllConns |-> NewConn]
  /\ stmts = [c \in AllConns |-> <<>>]
  /\ last = [op |-> "init", field |-> "", value |-> Int64(FALSE, ZeroMag),
             err |-> NoErr, resp |-> QueryResponse]
  /\ client = ClientWithToken("secret")
  /\ serverOpen = {}
  /\ dsn = ConnStr
  /\ rows = NoRows
  /\ drv = NoDriver
  /\ hist = NoHistory

\* Client.SendQuery of one query the server answers with the integer v in
\* the field: the server writes v in the body, the client decodes the body.
StepSendQueryInteger ==
  \E field \in IntegerFields, v \in ServerIntegers :
    LET d == DecodeBody(field, FormatInt(v))
        h == [net |-> "ok", status |-> StatusOK, decodes |-> d.ok,
              results |-> <<d.resp>>, ctx |-> "live"]
        r == SendQuery(Query("SELECT", <<>>, ""), h)
    IN  /\ last' = [op |-> "SendQuery", field |-> field, value |-> v,
                    err |-> r.err, resp |-> r.resp]
        /\ UNCHANGED <<open, txId, stmts, client, serverOpen, dsn, rows, drv,
                       hist>>

NextNumbers == StepSendQueryInteger

SpecNumbers == InitNumbers /\ [][NextNumbers]_vars

\* ------------------------------------------------- connections side by side

\* The server issues an id to one connection only.
IssuedTo(c) == IF c = "c1" THEN "tx1" ELSE "tx2"

\* The history of a connection after the call it just made.
HistAfter(h, call) ==
  LET q == SentQuery(call)
      tagged == q.query # "" /\ h.issued # "" /\ q.txId = h.issued
      sent ==
        IF tagged /\ q.query \in {"COMMIT", "ROLLBACK"}
          THEN [h EXCEPT !.finished = IF @ = 0 THEN 1 ELSE 2]
        ELSE IF tagged /\ h.finished > 0
          THEN [h EXCEPT !.stale = TRUE]
        ELSE h
  IN  IF call.op = "BeginTx" /\ call.err = NoErr
        THEN [issued |-> call.wire.resp.txId, finished |-> 0, stale |-> FALSE]
        ELSE sent

\* The call just made by c enters c's history; a begin response carries an
\* id the server issues to c.
Tracked(c) ==
  /\ (last'.wire.err = NoErr /\ last'.wire.resp.type = QueryResponseTypeBegin)
       => last'.wire.resp.txId = IssuedTo(c)
  /\ hist' = [hist EXCEPT ![c] = HistAfter(@, last')]
  /\ UNCHANGED <<client, serverOpen, dsn, rows, drv>>

\* The statement each connection has prepared.
ConnsStmt == [query |-> "INSERT", preparedTx |-> ""]

\* Two connections of one connector, open, each with a prepared statement.
InitConns ==
  /\ open = [c \in AllConns |-> TRUE]
  /\ txId = [c \in AllConns |-> NewConn]
  /\ stmts = [c \in AllConns |-> <<ConnsStmt>>]
  /\ last = [op |-> "init", conn |-> "", preTx |-> "", stmt |-> NoStmt,
             sent |-> <<>>, wire |-> NoWire, err |-> NoErr, val |-> NoVal]
  /\ client = ClientWithToken("secret")
  /\ serverOpen = {}
  /\ dsn = ConnStr
  /\ rows = NoRows
  /\ drv = NoDriver
  /\ hist = NoHistory

\* Callers using the two connections, one call at a time on each, in any
\* order.
NextConns ==
  \E c \in AllConns :
    \/ StepExec(c) /\ Tracked(c)
    \/ StepBeginTx(c) /\ Tracked(c)
    \/ StepCommitTx(c) /\ Tracked(c)
    \/ StepRollbackTx(c) /\ Tracked(c)
    \/ StepResetSession(c) /\ Tracked(c)
    \/ StepClose(c) /\ Tracked(c)

SpecConns == InitConns /\ [][NextConns]_vars

\* ------------------------------------------------------------------- driver

\* The connection strings handed to Driver.Open and Driver.OpenConnector: two
\* that NewClient accepts, and two it rejects for different reasons.
DriverStrings ==
  {<<"http", ":", "/", "/", "example.com", ":", "8080">>,
   <<"https", ":", "/", "/", "example.com", "?", "authToken", "=", "secret">>,
   <<"ftp", ":", "/", "/", "example.com">>,
   <<"http", ":", "/", "/", ":", "8080">>}

DriverOps == {"Open", "OpenConnector"}

\* A once whose Do returns as soon as some run of f has begun.
DoReturnsEarly == drv.once # "new"

\* httpClientOnce.Do returns without running f when a run of f has completed;
\* while a run is under way the caller waits.
DoReturns == drv.once = "done"

\* Driver.Open and Driver.OpenConnector on what getNSQLiteHTTPClient returned.
DriverOpen(got) ==
  IF got.err # NoErr
    THEN [err |-> Errorv("failed to create NSQLite HTTP client", got.err),
          val |-> NoVal]
    ELSE [err |-> NoErr, val |-> [kind |-> "conn", client |-> got.client]]

DriverOpenConnector(got) ==
  IF got.err # NoErr
    THEN [err |-> Errorv("failed to create NSQLite HTTP client", got.err),
          val |-> NoVal]
    ELSE [err |-> NoErr, val |-> [kind |-> "connector", client |-> got.client]]

InitDriver ==
  /\ open = [c \in AllConns |-> FALSE]
  /\ txId = [c \in AllConns |-> NewConn]
  /\ stmts = [c \in AllConns |-> <<>>]
  /\ last = [op |-> "init", conn |-> "", preTx |-> "", stmt |-> NoStmt,
             sent |-> <<>>, wire |-> NoWire, err |-> NoErr, val |-> NoVal]
  /\ client = NilClient
  /\ serverOpen = {}
  /\ dsn = ConnStr
  /\ rows = NoRows
  /\ drv = NoDriver
  /\ hist = NoHistory

\* Only the driver's package variables and its callers change.
DriverOnly == UNCHANGED <<open, txId, stmts, last, client, serverOpen, dsn, rows, hist>>

\* Goroutine g calls Open or OpenConnector with a connection string.
StepDriverCall(g) ==
  /\ drv.callers[g].pc \in {"idle", "returned"}
  /\ \E op \in DriverOps, str \in DriverStrings :
       drv' = [drv EXCEPT !.callers[g] =
                 [IdleCaller EXCEPT !.str = str, !.op = op, !.pc = "called"]]
  /\ DriverOnly

\* httpClientOnce.Do, first caller: g begins the run of f.
StepOnceEnter(g) ==
  /\ drv.callers[g].pc = "called"
  /\ drv.once = "new"
  /\ drv' = [drv EXCEPT !.once = "running", !.callers[g].pc = "inOnce"]
  /\ DriverOnly

\* The function under the once, trying again at the next call when NewClient
\* failed.
StepOnceBodyRetry(g) ==
  /\ drv.callers[g].pc = "inOnce"
  /\ LET r == NewClient(drv.callers[g].str)
     IN  drv' = [drv EXCEPT
                   !.httpClient = IF r.err # NoErr THEN @ ELSE r.client,
                   !.httpClientErr =
                     IF r.err # NoErr
                       THEN Errorv("failed to create NSQLite HTTP client", r.err)
                       ELSE NoErr,
                   !.built = IF @ = 0 THEN 1 ELSE 2,
                   !.first = IF drv.built = 0 THEN drv.callers[g].str ELSE @,
                   !.once = IF r.err # NoErr THEN "new" ELSE "done",
                   !.callers[g].pc = "afterOnce"]
  /\ DriverOnly

\* The function under the once: NewClient on g's connection string, its
\* client or its error stored; the run of f is then complete.
StepOnceBody(g) ==
  /\ drv.callers[g].pc = "inOnce"
  /\ LET r == NewClient(drv.callers[g].str)
     IN  drv' = [drv EXCEPT
                   !.httpClient = IF r.err # NoErr THEN @ ELSE r.client,
                   !.httpClientErr =
                     IF r.err # NoErr
                       THEN Errorv("failed to create NSQLite HTTP client", r.err)
                       ELSE NoErr,
                   !.built = IF @ = 0 THEN 1 ELSE 2,
                   !.first = IF drv.built = 0 THEN drv.callers[g].str ELSE @,
                   !.once = "done",
                   !.callers[g].pc = "afterOnce"]
  /\ DriverOnly

\* httpClientOnce.Do, later caller: f is not run.
StepOnceDone(g) ==
  /\ drv.callers[g].pc = "called"
  /\ DoReturns
  /\ drv' = [drv EXCEPT !.callers[g].pc = "afterOnce"]
  /\ DriverOnly

\* getNSQLiteHTTPClient returns httpClient and httpClientErr, and Open or
\* OpenConnector returns to g.
StepDriverReturn(g) ==
  /\ drv.callers[g].pc = "afterOnce"
  /\ LET got == [err |-> drv.httpClientErr, client |-> drv.httpClient]
         ret == IF drv.callers[g].op = "Open"
                  THEN DriverOpen(got) ELSE DriverOpenConnector(got)
     IN  drv' = [drv EXCEPT !.callers[g].pc = "returned",
                            !.callers[g].got = got,
                            !.callers[g].ret = ret]
  /\ DriverOnly

NextDriver ==
  \E g \in Goroutines :
    \/ StepDriverCall(g)
    \/ StepOnceEnter(g)
    \/ StepOnceBody(g)
    \/ StepOnceDone(g)
    \/ StepDriverReturn(g)

SpecDriver == InitDriver /\ [][NextDriver]_vars

\* ------------------------------------------------------------ properties

\* The connection of the latest call is in a transaction / idle now.
InTransaction(c) == txId[c] # ""
Idle(c) == txId[c] = ""

\* The latest call got a response of the given kind from the wire client.
Answered(kind) == last.wire.err = NoErr /\ last.wire.resp.type = kind

\* The one HTTP request carrying the one query.
OneQuery(text, params, tx) == <<PostQuery(<<Query(text, params, tx)>>)>>

\* C1: CommitTx and RollbackTx called in a transaction leave the connection
\* idle (txId empty) when they return, whether the wire call failed in the
\* transport, was answered with an error, with an unexpected kind, or succeeded.
C1_CommitRollbackLeaveIdle ==
  (last.op \in {"CommitTx", "RollbackTx"} /\ last.preTx # "")
    => Idle(last.conn)

\* A rollback in a transaction whose request failed in the transport.
C1_Witness ==
  /\ last.op = "RollbackTx"
  /\ last.preTx # ""
  /\ last.wire.err.kind = "transport"
  /\ Idle(last.conn)

\* C2: CommitTx and RollbackTx called on an idle connection return nil, send
\* no request, and leave the connection idle.
C2_IdleCommitRollbackNoOp ==
  (last.op \in {"CommitTx", "RollbackTx"} /\ last.preTx = "")
    => /\ last.err = NoErr
       /\ last.sent = <<>>
       /\ Idle(last.conn)

\* A commit on an idle connection that sent nothing.
C2_Witness ==
  /\ last.op = "CommitTx"
  /\ last.preTx = ""
  /\ last.sent = <<>>
  /\ last.err = NoErr

\* C3: BeginTx called in a transaction leaves the stored txId as it was, also
\* when the server answers with a begin response carrying another id.
C3_BeginKeepsTxId ==
  (last.op = "BeginTx" /\ last.preTx # "")
    => txId[last.conn] = last.preTx

\* C4: BeginTx on an idle connection sends one BEGIN query; exactly when the
\* response is of kind begin, the connection holds the id of that response, is
\* in a transaction, and a transaction handle is returned.
C4_BeginFromIdle ==
  (last.op = "BeginTx" /\ last.preTx = "")
    => /\ last.sent = OneQuery("BEGIN;", <<>>, "")
       /\ Answered(QueryResponseTypeBegin)
            => /\ txId[last.conn] = last.wire.resp.txId
               /\ InTransaction(last.conn)
               /\ last.err = NoErr
               /\ last.val = [kind |-> "tx", conn |-> last.conn]
       /\ ~Answered(QueryResponseTypeBegin)
            => /\ Idle(last.conn)
               /\ last.val = NoVal

\* A begin on an idle connection answered with the id tx2.
C4_Witness ==
  /\ last.op = "BeginTx"
  /\ last.preTx = ""
  /\ Answered(QueryResponseTypeBegin)
  /\ txId[last.conn] = "tx2"

\* C5: when BeginTx fails (transport error, error response, or a response of
\* any kind but begin) it returns an error and no handle, and the txId is what
\* it was before the call.
C5_BeginFailureKeepsState ==
  (last.op = "BeginTx" /\ ~Answered(QueryResponseTypeBegin))
    => /\ last.err # NoErr
       /\ last.val = NoVal
       /\ txId[last.conn] = last.preTx

\* A begin inside a transaction answered with a write response.
C5_Witness ==
  /\ last.op = "BeginTx"
  /\ last.preTx # ""
  /\ Answered(QueryResponseTypeWrite)
  /\ last.err.kind = "unexpected"
  /\ txId[last.conn] = last.preTx

\* C6: every execution of a statement sends the statement's query with the
\* txId the connection has when ExecContext or QueryContext is called, not
\* the txId it had when the statement was prepared.
C6_ExecutionUsesCurrentTxId ==
  last.op \in {"ExecContext", "QueryContext"}
    => /\ Len(last.sent) = 1
       /\ Len(last.sent[1].body) = 1
       /\ last.sent[1].body[1].query = last.stmt.query
       /\ last.sent[1].body[1].txId = last.preTx

\* A statement prepared on an idle connection and executed in a transaction.
C6_Witness ==
  /\ last.op = "ExecContext"
  /\ last.stmt.preparedTx = ""
  /\ last.preTx = "tx1"
  /\ last.sent[1].body[1].txId = "tx1"

\* A statement prepared in a transaction and run after it ended.
C6_WitnessAfterEnd ==
  /\ last.op = "QueryContext"
  /\ last.stmt.preparedTx = "tx1"
  /\ last.preTx = ""
  /\ last.sent[1].body[1].txId = ""

\* C7: ExecContext succeeds only on a write response: answered with a read,
\* begin, commit, rollback or error response it returns an error and no result.
C7_ExecOnlyOnWrite ==
  (last.op = "ExecContext" /\ last.wire.err = NoErr
     /\ last.wire.resp.type # QueryResponseTypeWrite)
    => /\ last.err # NoErr
       /\ last.val = NoVal

\* C8: QueryContext succeeds only on a read response, and then the rows it
\* returns hold the response's columns, types and rows; an error response
\* fails with the message it carries, any other kind as unexpected.
C8_QueryOnlyOnRead ==
  last.op = "QueryContext"
    => /\ last.err = NoErr => Answered(QueryResponseTypeRead)
       /\ Answered(QueryResponseTypeRead)
            => /\ last.err = NoErr
               /\ last.val.kind = "rows"
               /\ last.val.columns = last.wire.resp.columns
               /\ last.val.types = last.wire.resp.types
               /\ last.val.values = last.wire.resp.rows
       /\ Answered(QueryResponseTypeError)
            => /\ last.err.kind = "response"
               /\ last.err.msg = last.wire.resp.error
               /\ last.val = NoVal
       /\ (last.wire.err = NoErr
             /\ last.wire.resp.type \notin
                  {QueryResponseTypeRead, QueryResponseTypeError})
            => /\ last.err.kind = "unexpected"
               /\ last.val = NoVal

\* A query answered with a read response of two rows.
C8_Witness ==
  /\ last.op = "QueryContext"
  /\ last.err = NoErr
  /\ last.val.kind = "rows"
  /\ last.val.columns = <<"id", "name">>
  /\ Len(last.val.values) = 2

\* The calls that leave the txId alone, and those that may write it.
TxReaders == {"Prepare", "ExecContext", "QueryContext", "Ping", "IsValid"}
TxWriters == {"BeginTx", "CommitTx", "RollbackTx", "ResetSession", "Close"}

\* C9: Prepare, ExecContext, QueryContext, Ping and IsValid never change a
\* txId, whether they succeed or fail; a txId changes only in BeginTx,
\* CommitTx, RollbackTx, ResetSession and Close.
C9_OnlyTxCallsWriteTxId ==
  [][/\ last'.op \in TxReaders => txId' = txId
     /\ txId' # txId => last'.op \in TxWriters]_vars

\* An execution that failed inside a transaction, which is still active.
C9_Witness ==
  /\ last.op = "ExecContext"
  /\ last.err # NoErr
  /\ last.preTx # ""
  /\ txId[last.conn] = last.preTx

\* C10: ResetSession in a transaction sends one ROLLBACK tagged with the
\* stored txId and returns an error matching driver.ErrBadConn exactly when
\* that rollback fails; on an idle connection it sends nothing and returns nil.
C10_ResetSession ==
  last.op = "ResetSession"
    => /\ last.preTx = ""
            => /\ last.sent = <<>>
               /\ last.err = NoErr
       /\ last.preTx # ""
            => /\ last.sent = OneQuery("ROLLBACK", <<>>, last.preTx)
               /\ last.err.badConn <=> ~Answered(QueryResponseTypeRollback)
               /\ last.err = NoErr <=> Answered(QueryResponseTypeRollback)

\* A reset in a transaction whose rollback failed in the transport.
C10_Witness ==
  /\ last.op = "ResetSession"
  /\ last.preTx # ""
  /\ last.wire.err.kind = "transport"
  /\ last.err.badConn

\* C11: Close never hands a failure of its rollback to the caller: when the
\* rollback fails (transport error, error response or unexpected response),
\* Close still returns nil.
C11_CloseSwallowsRollbackFailure ==
  last.op = "Close" => last.err = NoErr

\* C12 as claimed: once Close has returned and the rollback it sent, if it
\* sent one, was answered with a rollback response, no transaction begun
\* through the connection is open on the server, whatever calls came before.
C12_CloseLeavesNoTransaction ==
  (last.op = "Close"
     /\ (last.sent = <<>> \/ Answered(QueryResponseTypeRollback)))
    => serverOpen = {}

\* C12 as amended: when Close finds the connection in a transaction, it sends
\* one ROLLBACK tagged with the stored txId, and once that is answered with a
\* rollback response the transaction of that id is not open on the server.
C12_CloseEndsStoredTransaction ==
  (last.op = "Close" /\ last.preTx # "")
    => /\ last.sent = OneQuery("ROLLBACK", <<>>, last.preTx)
       /\ Answered(QueryResponseTypeRollback) => last.preTx \notin serverOpen

\* A close that rolled back tx1, the one transaction open on the server.
C12_Witness ==
  /\ last.op = "Close"
  /\ last.preTx = "tx1"
  /\ Answered(QueryResponseTypeRollback)
  /\ serverOpen = {}

\* C13: CommitTx and RollbackTx called in a transaction send exactly one
\* COMMIT, respectively ROLLBACK, query tagged with the stored txId, and
\* return nil exactly when the response is of kind commit, respectively
\* rollback.
C13_CommitRollbackRequest ==
  /\ (last.op = "CommitTx" /\ last.preTx # "")
       => /\ last.sent = OneQuery("COMMIT", <<>>, last.preTx)
          /\ last.err = NoErr <=> Answered(QueryResponseTypeCommit)
  /\ (last.op = "RollbackTx" /\ last.preTx # "")
       => /\ last.sent = OneQuery("ROLLBACK", <<>>, last.preTx)
          /\ last.err = NoErr <=> Answered(QueryResponseTypeRollback)

\* A commit of tx2 answered with a rollback response, which fails.
C13_Witness ==
  /\ last.op = "CommitTx"
  /\ last.preTx = "tx2"
  /\ last.sent = OneQuery("COMMIT", <<>>, "tx2")
  /\ Answered(QueryResponseTypeRollback)
  /\ last.err.kind = "unexpected"

\* The batch the latest SendQueries call submitted.
SentBatch == last.sent[1].body

\* C14 as stated: a successful SendQueries returns exactly as many responses
\* as the batch has queries, the i-th being the i-th result of the server's
\* envelope.
C14_OneResponsePerQuery ==
  (last.op = "SendQueries" /\ last.err = NoErr)
    => /\ Len(last.val.responses) = Len(SentBatch)
       /\ \A i \in 1..Len(SentBatch) :
            last.val.responses[i] = last.wire.http.results[i]

\* C14: a successful SendQueries returns the results list of the server's
\* envelope, whole and in order and at least one long, so n responses in the
\* order of the n queries when the server answers each query once and in
\* order; a successful SendQuery returns the first of them.
C14_ResponsesAreEnvelopeResults ==
  /\ (last.op = "SendQueries" /\ last.err = NoErr)
       => /\ last.val.responses = last.wire.http.results
          /\ Len(last.val.responses) >= 1
          /\ Len(last.wire.http.results) = Len(SentBatch)
               => /\ Len(last.val.responses) = Len(SentBatch)
                  /\ \A i \in 1..Len(SentBatch) :
                       last.val.responses[i] = last.wire.http.results[i]
  /\ (last.op = "SendQuery" /\ last.err = NoErr)
       => last.val.resp = last.wire.http.results[1]

\* C14 witness: three queries answered by a write, a read and a write result
\* come back as those three responses in that order.
C14_Witness ==
  /\ last.op = "SendQueries"
  /\ last.err = NoErr
  /\ Len(SentBatch) = 3
  /\ Len(last.val.responses) = 3
  /\ last.val.responses[1].type = QueryResponseTypeWrite
  /\ last.val.responses[2].type = QueryResponseTypeRead
  /\ last.val.responses[3].type = QueryResponseTypeWrite

\* The cases in which a POST /query must fail: no response at all, a status
\* other than 200 (401 among them), a body that is no envelope, an envelope
\* without results.
BatchMustFail(h) ==
  \/ h.net = "fail"
  \/ h.status = StatusUnauthorized
  \/ h.status # StatusOK
  \/ ~h.decodes
  \/ Len(h.results) = 0

\* C15: SendQueries returns an error and no responses when the transport
\* fails, on status 401, on any other status that is not 200, on a body that
\* does not decode and on an envelope without results; it returns responses,
\* and no error, only on status 200 with a results list that is not empty.
C15_SendQueriesFailures ==
  last.op = "SendQueries"
    => /\ BatchMustFail(last.wire.http)
            => (last.err # NoErr /\ last.val.responses = <<>>)
       /\ ~BatchMustFail(last.wire.http)
            => (last.err = NoErr /\ last.val.responses # <<>>)
       /\ last.val.responses # <<>>
            => /\ last.wire.http.net = "ok"
               /\ last.wire.http.status = StatusOK
               /\ Len(last.wire.http.results) > 0

\* C15 witness: a batch of two queries answered with status 200 and an
\* envelope without results fails with the empty response error.
C15_Witness ==
  /\ last.op = "SendQueries"
  /\ Len(SentBatch) = 2
  /\ last.wire.http.status = StatusOK
  /\ last.wire.http.decodes
  /\ last.wire.http.results = <<>>
  /\ last.err.kind = "empty"
  /\ last.val.responses = <<>>

\* The endpoints of the wire protocol, by the Client method that calls each.
WireEndpoints == {"SendPing", "IsHealthy", "GetVersion", "SendQueries", "SendQuery", "GetStats"}

\* C16: a 401 from any endpoint (/health, /version, /query, /stats) is
\* returned as the authentication error, and no other status is.
C16_UnauthorizedIsAuthError ==
  (last.op \in WireEndpoints /\ last.wire.http.net = "ok")
    => (last.wire.http.status = StatusUnauthorized <=> last.err.kind = "auth")

\* The Authorization headers of a request.
Authorizations(request) == {p \in request.header : p[1] = "Authorization"}

OkBodies == {<<"o", "k">>, <<"O", "K">>, <<"O", "k">>, <<"o", "K">>}

C19_IsValidIffPing ==
  last.op = "IsValid"
    => /\ last.val.ok <=> (Ping(last.conn, last.wire.http).err = NoErr)
       /\ last.wire.err = SendPing(last.wire.http)
       /\ last.sent = Ping(last.conn, last.wire.http).sent

\* C19 witness: IsValid answered false for a server that replied 200 with a
\* body other than "ok".
C19_Witness ==
  /\ last.op = "IsValid"
  /\ last.wire.http.net = "ok"
  /\ last.wire.http.status = StatusOK
  /\ last.wire.http.body = <<"n", "o">>
  /\ last.val.ok = FALSE

\* The operations that talk to the server.
NetworkOps ==
  {"BeginTx", "CommitTx", "RollbackTx", "ExecContext", "QueryContext", "Ping",
   "ResetSession", "Close"}

\* C20: each call of such an operation sends at most one HTTP request, and
\* when that request failed the call returns an error.
C20_NoInternalRetry ==
  last.op \in NetworkOps
    => /\ Len(last.sent) <= 1
       /\ (Len(last.sent) = 1 /\ last.wire.err # NoErr) => last.err # NoErr

\* C20 witness: a QueryContext whose one request failed in the transport
\* returned an error.
C20_Witness ==
  /\ last.op = "QueryContext"
  /\ Len(last.sent) = 1
  /\ last.wire.err.kind = "transport"
  /\ last.err # NoErr

\* C21: when the caller's context ends while a SendQueries call is in flight,
\* before the response arrives or while its body is read, the call returns
\* no responses and an error whose cause is the context's error (what
\* errors.Is finds in the chain), never the decoder's error or the empty
\* response error.
C21_CancellationIsNotProtocolError ==
  (last.op = "SendQueries" /\ last.wire.http.ctx # "live")
    => /\ last.err # NoErr
       /\ last.val.responses = <<>>
       /\ last.err.kind \in {"transport", "cancelled"}
       /\ last.err.kind \notin {"decode", "empty"}

\* C21 witness: the context ended while the body of a 200 response was read;
\* the error returned carries the context's error.
C21_Witness ==
  /\ last.op = "SendQueries"
  /\ last.wire.http.ctx = "doneInBody"
  /\ last.wire.http.status = StatusOK
  /\ last.err.kind = "cancelled"
  /\ last.err.prefix = "failed to decode response"

\* The scheme a text is written with: the word before a colon that comes
\* second, as written, and whether that word reads http or https, exactly
\* or when the case of its letters is ignored.
SchemeExactlyHttp(text) ==
  Len(text) >= 2 /\ text[2] = ":" /\ text[1] \in {"http", "https"}
SchemeIsHttp(text) ==
  Len(text) >= 2 /\ text[2] = ":" /\ ToLowerWord(text[1]) \in {"http", "https"}

\* C22 as stated: a text the URL parser accepts fails with the invalid
\* protocol error unless its scheme is written exactly http or https.
C22_ExactSchemeOrInvalidProtocol ==
  (last.op = "NewConnStrFromText" /\ last.err.kind # "parse")
    => (last.err.kind = "protocol" <=> ~SchemeExactlyHttp(last.text))

\* C22: a text the URL parser accepts fails with the invalid protocol error
\* unless its scheme reads http or https when the case of its letters is
\* ignored; no text with another scheme, or none, is parsed with success.
C22_SchemeOrInvalidProtocol ==
  last.op = "NewConnStrFromText"
    => /\ last.err.kind # "parse"
            => (last.err.kind = "protocol" <=> ~SchemeIsHttp(last.text))
       /\ last.err = NoErr => SchemeIsHttp(last.text)

\* C22 witness: ftp://example.com was refused with the invalid protocol error.
C22_Witness ==
  /\ last.op = "NewConnStrFromText"
  /\ last.text = <<"ftp", ":", "/", "/", "example.com">>
  /\ last.err.kind = "protocol"

\* A text with a scheme that reads http or https and with no host: nothing,
\* or a colon, a slash or a question mark, where the host would be, or no
\* double slash at all.
HostMissing(text) ==
  /\ SchemeIsHttp(text)
  /\ \/ ~HasPrefix(SubSeq(text, 3, Len(text)), <<"/", "/">>)
     \/ Len(text) = 4
     \/ text[5] \in {":", "/", "?"}

C24_MalformedInput ==
  (last.op = "NewConnStrFromText" /\ last.text = <<"http", "/", "/", "example.com">>)
    => last.err.kind = "parse"

\* The value the first authToken parameter of a query is written with,
\* escapes and all; nothing when the query has no such parameter.
RECURSIVE WrittenToken(_)
WrittenToken(query) ==
  IF query = <<>> THEN <<>>
  ELSE IF Before(Before(query, "&"), "=") = <<"authToken">>
    THEN After(Before(query, "&"), "=")
  ELSE WrittenToken(After(query, "&"))

\* The host and the port a text with scheme and "://" is written with: the
\* word after the double slash, and the digits after the colon behind it.
WrittenHost(text) == <<text[5]>>
WrittenPort(text) ==
  IF Len(text) >= 7 /\ text[6] = ":" /\ text[7] \in DigitWords
    THEN <<text[7]>> ELSE <<>>

C26_ParseTotalAndExclusive ==
  last.op = "NewConnStrFromText"
    => \/ /\ last.err = NoErr
          /\ dsn.Protocol \in {<<"http">>, <<"https">>}
          /\ dsn.Host # <<>>
          /\ dsn.Port # <<>>
       \/ /\ last.err # NoErr
          /\ dsn = ConnStr

\* C26 witness: https://:8080, a text with protocol and port and without
\* host, returned the error and the empty descriptor.
C26_Witness ==
  /\ last.op = "NewConnStrFromText"
  /\ last.text = <<"https", ":", "/", "/", ":", "8080">>
  /\ last.err # NoErr
  /\ dsn = ConnStr

\* s holds t as a run of consecutive pieces.
Contains(s, t) ==
  \E i \in 1..(Len(s) - Len(t) + 1) : SubSeq(s, i, i + Len(t) - 1) = t

\* C27: the string shown for a descriptor is scheme://host:port, followed by
\* ?authToken=**** exactly when a token is set; it is the same for every
\* token that is set and does not hold the token.
C27_DisplayMasksToken ==
  last.op = "String"
    => /\ last.out = dsn.Protocol \o <<":", "/", "/">> \o dsn.Host \o <<":">> \o dsn.Port
                       \o (IF dsn.AuthToken # <<>>
                             THEN <<"?", "authToken", "=", "****">> ELSE <<>>)
       /\ dsn.AuthToken # <<>>
            => /\ ~Contains(last.out, dsn.AuthToken)
               /\ \A c \in Literals :
                    c.AuthToken # <<>>
                      => String([last.pre EXCEPT !.AuthToken = c.AuthToken]).out
                           = last.out

\* C27 witness: {https, example.com, "", secret} is shown as
\* https://example.com:9876?authToken=****.
C27_Witness ==
  /\ last.op = "String"
  /\ dsn.AuthToken = <<"secret">>
  /\ last.out = <<"https", ":", "/", "/", "example.com", ":", "9876",
                  "?", "authToken", "=", "****">>

\* scheme://host:port of the descriptor held.
BaseOfDsn == dsn.Protocol \o <<":", "/", "/">> \o dsn.Host \o <<":">> \o dsn.Port

\* The URL for a path without query: the base itself for the empty path, the
\* base and the path with one slash between them otherwise.
BaseAndPath(path) ==
  IF path = <<>> THEN BaseOfDsn
  ELSE IF path[1] = "/" THEN BaseOfDsn \o path
  ELSE BaseOfDsn \o <<"/">> \o path

\* C28: for a path with a question mark CreateUrlStr returns the URL of the
\* part before the first question mark, then a question mark, then all that
\* follows the first question mark in the path, unchanged.
C28_QueryKeptWhole ==
  (last.op = "CreateUrlStr" /\ Index(last.path, "?") # 0)
    => /\ last.err = NoErr
       /\ last.out = BaseAndPath(Before(last.path, "?")) \o <<"?">>
                       \o After(last.path, "?")

\* C29: for a path without question mark CreateUrlStr returns, and
\* CreateUrl returns the URL that reads, the base URL for the empty path,
\* the base URL and one slash for the path "/", and otherwise the base URL
\* and the path with exactly one slash between them; neither holds the
\* token.
C29_BaseAndPathOneSlash ==
  (last.op \in {"CreateUrlStr", "CreateUrl"} /\ Index(last.path, "?") = 0)
    => /\ last.err = NoErr
       /\ last.op = "CreateUrlStr" => last.out = BaseAndPath(last.path)
       /\ last.op = "CreateUrl"
            => /\ ~last.url.err
               /\ URLString(last.url) = BaseAndPath(last.path)
               /\ last.url.Scheme = dsn.Protocol
               /\ last.url.Host = dsn.Host \o <<":">> \o dsn.Port
               /\ last.url.RawQuery = <<>>
       /\ dsn.AuthToken # <<>>
            => /\ ~Contains(last.out, dsn.AuthToken)
               /\ ~Contains(URLString(last.url), dsn.AuthToken)

\* C29 witness: /api/v1 on the descriptor with only a token set gives
\* http://localhost:9876/api/v1.
C29_Witness ==
  /\ last.op = "CreateUrlStr"
  /\ last.pre = [ConnStr EXCEPT !.AuthToken = <<"secret">>]
  /\ last.path = <<"/", "api", "/", "v1">>
  /\ last.out = <<"http", ":", "/", "/", "localhost", ":", "9876",
                  "/", "api", "/", "v1">>

\* The method the latest call was of, called on the descriptor c with the
\* same argument.
Again(c) ==
  CASE last.op = "String" -> String(c)
    [] last.op = "BaseUrlStr" -> BaseUrlStr(c)
    [] last.op = "CreateUrlStr" -> CreateUrlStr(c, last.path)
    [] last.op = "CreateUrl" -> CreateUrl(c, last.path)

\* C30: after a call of String, BaseUrlStr, CreateUrlStr or CreateUrl each
\* field among protocol, host and port that was empty holds its default
\* (http, localhost, 9876), each that was not and the token are as they
\* were, and the same call made again changes no field and returns the same.
C30_DefaultsOnceAndObservable ==
  last.op \in {"String", "BaseUrlStr", "CreateUrlStr", "CreateUrl"}
    => /\ dsn.Protocol = IF last.pre.Protocol = <<>> THEN <<"http">>
                         ELSE last.pre.Protocol
       /\ dsn.Host = IF last.pre.Host = <<>> THEN <<"localhost">> ELSE last.pre.Host
       /\ dsn.Port = IF last.pre.Port = <<>> THEN <<"9876">> ELSE last.pre.Port
       /\ dsn.AuthToken = last.pre.AuthToken
       /\ Again(dsn).connStr = dsn
       /\ Again(dsn).out = last.out
       /\ Again(dsn).url = last.url
       /\ Again(dsn).err = last.err

\* C30 witness: CreateUrl on {"", "", 8080, ""} left {http, localhost, 8080, ""}.
C30_Witness ==
  /\ last.op = "CreateUrl"
  /\ last.pre = [ConnStr EXCEPT !.Port = <<"8080">>]
  /\ dsn = [Protocol |-> <<"http">>, Host |-> <<"localhost">>,
            Port |-> <<"8080">>, AuthToken |-> <<>>]

\* C31: iterating the rows of a read response with k rows hands out the k
\* rows once each and in order on the first k calls of Next; call k + 1 and
\* every later call signal the end of the data and leave the destination as
\* it was; the row index stays within 0..k and never decreases.
C31_RowsInOrderThenEnd ==
  /\ rows.q.kind = "rows" =>
       /\ rows.q.valuesLen = Len(rows.q.values)
       /\ rows.q.rowIdx \in 0..Len(rows.q.values)
  /\ last.op = "Next" =>
       LET k == Len(last.pre.q.values)
           n == last.pre.calls + 1
       IN  /\ rows.q.values = last.pre.q.values
           /\ rows.q.rowIdx >= last.pre.q.rowIdx
           /\ IF n <= k
                THEN /\ last.err = NoErr
                     /\ rows.dest = last.pre.q.values[n]
                     /\ rows.q.rowIdx = n
                ELSE /\ last.err = EOF
                     /\ rows.dest = last.pre.dest
                     /\ rows.q.rowIdx = k
  /\ last.op = "ColumnTypeDatabaseTypeName" => rows = last.pre

\* The fifth call of Next on three rows: the end again, the third row still
\* in the destination.
C31_Witness ==
  /\ last.op = "Next"
  /\ Len(rows.q.values) = 3
  /\ last.pre.calls = 4
  /\ last.err = EOF
  /\ rows.dest = <<"b">>

\* C32: converting the arguments of a statement to the parameters of the
\* wire keeps their number and order and carries the name and the value of
\* each argument into the parameter at its position; only the ordinal is
\* dropped, and an argument without a name gives a parameter without one.
C32_ParamsCarryNames ==
  last.op = "convertNamedValueToAnyArray" =>
    /\ Len(last.val) = Len(last.args)
    /\ \A i \in 1..Len(last.args) :
         /\ ParamName(last.val[i]) = last.args[i].name
         /\ ParamValue(last.val[i]) = last.args[i].value

\* C33: convertValueToNamedValue maps n >= 1 positional values to n named
\* values in the same order, the i-th with ordinal i, no name and the i-th
\* value; the empty list maps to nil.
C33_PositionalOrdinals ==
  last.op = "convertValueToNamedValue" =>
    IF last.args = <<>>
      THEN last.val.nil /\ last.val.elems = <<>>
      ELSE /\ ~last.val.nil
           /\ Len(last.val.elems) = Len(last.args)
           /\ \A i \in 1..Len(last.args) :
                last.val.elems[i] =
                  [ordinal |-> i, name |-> "", value |-> last.args[i]]

\* Three values, the third with ordinal 3.
C33_Witness ==
  /\ last.op = "convertValueToNamedValue"
  /\ last.args = <<"42", "example", "3.14">>
  /\ ~last.val.nil
  /\ last.val.elems[3] = [ordinal |-> 3, name |-> "", value |-> "3.14"]

\* C34: the integers a server returns in row values, lastInsertId and
\* rowsAffected are decoded without loss: every integer of the signed 64-bit
\* range is surfaced with exactly the value the server sent, never rounded
\* through a floating-point number.
C34_IntegersExact ==
  last.op = "SendQuery" =>
    /\ last.err = NoErr
    /\ last.field = "lastInsertId" => last.resp.lastInsertId = last.value
    /\ last.field = "rowsAffected" => last.resp.rowsAffected = last.value
    /\ last.field = "rows" =>
         /\ last.resp.rows[1][1].kind # "float64"
         /\ IntegerOf(last.resp.rows[1][1]) = last.value

\* 2^53 + 1 came back in a row as 9007199254740993.
C34_Witness ==
  /\ last.op = "SendQuery"
  /\ last.field = "rows"
  /\ last.value = Int64(FALSE, <<32, 0, 0, 1>>)
  /\ last.resp.rows[1][1].text = <<9007, 1992, 5474, 993>>

\* C35: for any transaction id the server issued to a connection, the
\* connection sends at most one COMMIT or ROLLBACK tagged with that id, over
\* every sequence of commit, rollback, reset and close calls, those after a
\* failed attempt included; and once it has sent one, no later query of the
\* connection carries the id.
C35_OneEndPerTransaction ==
  \A c \in AllConns :
    /\ hist[c].finished <= 1
    /\ ~hist[c].stale

\* After the one COMMIT or ROLLBACK for tx1 was sent, a Close of the
\* connection sends nothing.
C35_Witness ==
  /\ last.op = "Close"
  /\ last.conn = "c1"
  /\ last.sent = <<>>
  /\ hist["c1"] = [issued |-> "tx1", finished |-> 1, stale |-> FALSE]

\* C36: the transaction state is per connection although the connections
\* share one wire client: an id obtained by one connection is never attached
\* to a request issued through another connection, and a call on one
\* connection never changes the txId of another, whatever the interleaving.
C36_TxIdPerConnection ==
  /\ [](last.op # "init" =>
          /\ SentQuery(last).txId \in {"", last.preTx}
          /\ SentQuery(last).txId \in {"", IssuedTo(last.conn)}
          /\ \A c \in AllConns : txId[c] \in {"", IssuedTo(c)})
  /\ [][\A c \in AllConns : c # last'.conn => txId'[c] = txId[c]]_vars

\* Both connections are in a transaction, each with its own id, and the
\* second executes a statement tagged with its own.
C36_Witness ==
  /\ txId["c1"] = "tx1"
  /\ txId["c2"] = "tx2"
  /\ last.op = "ExecContext"
  /\ last.conn = "c2"
  /\ SentQuery(last).txId = "tx2"

\* C37: however concurrent calls of Driver.Open and Driver.OpenConnector
\* interleave, the shared wire client is constructed at most once and every
\* caller observes the same outcome of the construction, the same client or
\* the same error; no caller observes a nil client with a nil error.
C37_ClientBuiltOnce ==
  /\ drv.built <= 1
  /\ \A g \in Goroutines :
       drv.callers[g].pc = "returned" =>
         /\ ~(drv.callers[g].got.client.nil /\ drv.callers[g].got.err = NoErr)
         /\ drv.callers[g].got.client = drv.httpClient
         /\ drv.callers[g].got.err = drv.httpClientErr
         /\ \A h \in Goroutines :
              drv.callers[h].pc = "returned" =>
                drv.callers[h].got = drv.callers[g].got

\* Two callers with different connection strings have returned with the one
\* client.
C37_Witness ==
  /\ drv.built = 1
  /\ drv.callers["g1"].pc = "returned"
  /\ drv.callers["g2"].pc = "returned"
  /\ drv.callers["g1"].str # drv.callers["g2"].str
  /\ ~drv.callers["g1"].got.client.nil
  /\ drv.callers["g1"].got.client = drv.callers["g2"].got.client

\* C38: the connection string of the first call of Driver.Open or
\* Driver.OpenConnector decides the outcome of all later ones: a later call
\* with a different string returns a connection or connector bound to the
\* client of the first string, and when the first string was invalid every
\* later call fails with that same error, even when its own string is valid.
C38_FirstStringDecides ==
  \A g \in Goroutines :
    drv.callers[g].pc = "returned" =>
      LET f == NewClient(drv.first)
          r == drv.callers[g].ret
      IN  IF f.err = NoErr
            THEN /\ r.err = NoErr
                 /\ r.val.client = f.client
                 /\ r.val.kind =
                      IF drv.callers[g].op = "Open" THEN "conn" ELSE "connector"
            ELSE /\ r.val = NoVal
                 /\ r.err = Errorv("failed to create NSQLite HTTP client",
                                   Errorv("failed to create NSQLite HTTP client",
                                          f.err))

\* The first string had no host; a later Open with a valid string fails with
\* the error of the first.
C38_Witness ==
  /\ drv.first = <<"http", ":", "/", "/", ":", "8080">>
  /\ drv.callers["g2"].pc = "returned"
  /\ drv.callers["g2"].op = "Open"
  /\ drv.callers["g2"].str = <<"http", ":", "/", "/", "example.com", ":", "8080">>
  /\ drv.callers["g2"].ret.err # NoErr
  /\ drv.callers["g2"].ret.err.msg = "host is required"

\* C39: ColumnTypeDatabaseTypeName is total: for an index below 0 or not
\* below the number of declared types it returns the empty string, otherwise
\* the declared type in upper case; and the declared types never alter the
\* values Next returns.
C39_TypeNameTotal ==
  /\ last.op = "ColumnTypeDatabaseTypeName" =>
       LET types == last.pre.q.types
       IN  /\ last.err = NoErr
           /\ rows = last.pre
           /\ IF last.index < 0 \/ last.index >= Len(types)
                THEN last.val.name = ""
                ELSE <<types[last.index + 1], last.val.name>> \in UpperCased
  /\ (last.op = "Next" /\ last.err = NoErr) =>
       rows.dest = last.pre.q.values[last.pre.q.rowIdx + 1]

\* The type of the second column of rows declared as Real and blob.
C39_Witness ==
  /\ last.op = "ColumnTypeDatabaseTypeName"
  /\ last.pre.q.types = <<"Real", "blob">>
  /\ last.index = 1
  /\ last.val.name = "BLOB"

====
